---------------------------- MODULE Spec2Model ----------------------------
(***************************************************************************)
(* A model of calendar-splitter (src/scripts): the course detector, the    *)
(* rule-document loader, the match engine, the rewrite engine, the         *)
(* splitter loop, the token map and the upstream fetch.                    *)
(*                                                                         *)
(* Text is modelled character by character: a Python str is a sequence of  *)
(* one-character strings, so that regular-expression search, str.strip,    *)
(* str.format and the substring test are computed, not assumed.            *)
(* Python's None is the value None below; an Optional[int] is <<>> (None)  *)
(* or <<n>>.  The outcome of a call that may raise is a record             *)
(* [exc |-> name of the exception or "none", val |-> returned value].      *)
(***************************************************************************)
EXTENDS Integers, Sequences, FiniteSets, TLC

VARIABLES
    phase,            \* "call": inputs drawn, operation not applied; "return": applied
    args,             \* the inputs of the operation under study
    result,           \* its outcome
    pc,               \* split_and_write: position of the run
    upstream,         \* split_and_write: the components of the upstream calendar, in walk order
    pos,              \* split_and_write: index of the next component, then of the next bucket
    rules_by_course,  \* split_and_write: course -> CourseRules
    token_map,        \* course -> token (mutated in place by ensure_token)
    buckets,          \* split_and_write: course -> sequence of rewritten events
    total,            \* split_and_write: counters
    kept,
    filtered,
    feeds,            \* the files written into feeds_dir: set of [name, events]
    written,          \* split_and_write: return value
    raised,           \* the exception that left split_and_write, or "none"
    token_file,       \* main: what TOKEN_MAP_PATH holds
    runs,             \* main: the number of runs started
    state_file,       \* fetch: what state_path holds
    source,           \* fetch: what the upstream holds now
    fetched           \* fetch: the calls made so far, as [source, result]

\* what outlives a run
envvars == <<token_file, runs, state_file, source, fetched>>

vars == <<phase, args, result, pc, upstream, pos, rules_by_course, token_map,
          buckets, total, kept, filtered, feeds, written, raised, envvars>>

procvars == <<pc, upstream, pos, rules_by_course, token_map, buckets, total, kept,
              filtered, feeds, written, raised, envvars>>

callvars == <<phase, args, result>>

-----------------------------------------------------------------------------
(* Python values *)

None == <<"<None>">>

NoNum == <<>>

Num(n) == <<n>>

Ok(v) == [exc |-> "none", val |-> v]

Raise(e) == [exc |-> e, val |-> None]

\* the rest of a computation after a call: an exception of the call
\* propagates, a returned value is handed on
Try(r, Then(_)) == IF r.exc # "none" THEN r ELSE Then(r.val)

\* a value computed once and given a name
With(v, Body(_)) == Body(v)

-----------------------------------------------------------------------------
(* Characters and text *)

UpperSeq == <<"A","B","C","D","E","F","G","H","I","J","K","L","M",
              "N","O","P","Q","R","S","T","U","V","W","X","Y","Z">>

LowerSeq == <<"a","b","c","d","e","f","g","h","i","j","k","l","m",
              "n","o","p","q","r","s","t","u","v","w","x","y","z">>

DigitSeq == <<"0","1","2","3","4","5","6","7","8","9">>

Range(f) == {f[i] : i \in DOMAIN f}

IsUpper(c) == c \in Range(UpperSeq)

IsLower(c) == c \in Range(LowerSeq)

IsDigit(c) == c \in Range(DigitSeq)

\* \w of Python's re for the ASCII characters of the model
IsWord(c) == IsUpper(c) \/ IsLower(c) \/ IsDigit(c) \/ c = "_"

\* \s, and what str.strip() removes
IsSpace(c) == c \in {" ", "\n", "\t"}

ToLower(c) == IF IsUpper(c) THEN LowerSeq[CHOOSE i \in DOMAIN UpperSeq : UpperSeq[i] = c] ELSE c

ToUpper(c) == IF IsLower(c) THEN UpperSeq[CHOOSE i \in DOMAIN LowerSeq : LowerSeq[i] = c] ELSE c

\* str.lower()
Lower(s) == [i \in 1..Len(s) |-> ToLower(s[i])]

\* str.capitalize(): first character upper-cased, the rest lower-cased
Capitalize(s) == [i \in 1..Len(s) |-> IF i = 1 THEN ToUpper(s[i]) ELSE ToLower(s[i])]

\* s[i..j], empty when j < i
Slice(s, i, j) == SubSeq(s, i, j)

\* t occurs in s at position i
OccursAt(s, t, i) == i >= 1 /\ i + Len(t) - 1 <= Len(s) /\ Slice(s, i, i + Len(t) - 1) = t

\* Python: t in s
Contains(s, t) == \E i \in 1..(Len(s) + 1) : OccursAt(s, t, i)

\* t occurs in s at position i, ignoring case (re.IGNORECASE on literal text)
OccursAtNoCase(s, t, i) == OccursAt(Lower(s), Lower(t), i)

RECURSIVE LStrip(_)
LStrip(s) == IF s # <<>> /\ IsSpace(Head(s)) THEN LStrip(Tail(s)) ELSE s

RECURSIVE RStrip(_)
RStrip(s) == IF s # <<>> /\ IsSpace(s[Len(s)]) THEN RStrip(Slice(s, 1, Len(s) - 1)) ELSE s

\* str.strip()
Strip(s) == RStrip(LStrip(s))

\* Python truthiness of `x or ""` for an Optional[str]
OrEmpty(s) == IF s = None THEN <<>> ELSE s

DigitVal(c) == (CHOOSE i \in DOMAIN DigitSeq : DigitSeq[i] = c) - 1

\* int(s) of a run of ASCII digits
RECURSIVE DigitsToInt(_)
DigitsToInt(s) == IF s = <<>> THEN 0
                  ELSE 10 * DigitsToInt(Slice(s, 1, Len(s) - 1)) + DigitVal(s[Len(s)])

\* str(n) / format of a non-negative int
RECURSIVE IntToText(_)
IntToText(n) == IF n < 10 THEN <<DigitSeq[n + 1]>>
                ELSE IntToText(n \div 10) \o <<DigitSeq[(n % 10) + 1]>>

\* \b before position p (1..Len(s)+1): exactly one side is a word character
WordBoundary(s, p) ==
    LET before == p > 1 /\ p - 1 <= Len(s) /\ IsWord(s[p - 1])
        after  == p >= 1 /\ p <= Len(s) /\ IsWord(s[p])
    IN  before # after

\* the least element of a non-empty set of positions (re.search is leftmost)
Leftmost(S) == CHOOSE i \in S : \A j \in S : i <= j

\* the length of the longest run of characters satisfying a class starting at i
RECURSIVE RunOfDigits(_, _)
RunOfDigits(s, i) == IF i <= Len(s) /\ IsDigit(s[i]) THEN 1 + RunOfDigits(s, i + 1) ELSE 0

RECURSIVE RunOfSpace(_, _)
RunOfSpace(s, i) == IF i <= Len(s) /\ IsSpace(s[i]) THEN 1 + RunOfSpace(s, i + 1) ELSE 0

RECURSIVE RunOfWord(_, _)
RunOfWord(s, i) == IF i <= Len(s) /\ IsWord(s[i]) THEN 1 + RunOfWord(s, i + 1) ELSE 0

-----------------------------------------------------------------------------
(* Course detector: rewrite.py detect_course_code *)

\* RE_COURSE_KTH_STYLE = \b([A-Z]{2}\d{4})\b matches at i
KthStyleAt(s, i) ==
    /\ i + 5 <= Len(s)
    /\ WordBoundary(s, i)
    /\ IsUpper(s[i]) /\ IsUpper(s[i + 1])
    /\ \A k \in 2..5 : IsDigit(s[i + k])
    /\ WordBoundary(s, i + 6)

IsUpperOrDigit(c) == IsUpper(c) \/ IsDigit(c)

\* RE_COURSE_PARENS = \(([A-Z]{2,}[A-Z0-9]*\d[A-Z0-9]*)\) matches at i with the
\* closing parenthesis at j: the group is s[i+1..j-1], all of [A-Z0-9], opening
\* with two letters and holding a digit after them
ParensAt(s, i, j) ==
    /\ i >= 1 /\ j <= Len(s) /\ j >= i + 4
    /\ s[i] = "(" /\ s[j] = ")"
    /\ \A k \in (i + 1)..(j - 1) : IsUpperOrDigit(s[k])
    /\ IsUpper(s[i + 1]) /\ IsUpper(s[i + 2])
    /\ \E k \in (i + 3)..(j - 1) : IsDigit(s[k])

IsUrlCodeChar(c) == IsUpper(c) \/ IsDigit(c) \/ c = "-"

CoursePath == <<"/","c","o","u","r","s","e","/">>

\* RE_KTH_COURSE_URL = /course/([A-Z0-9\-]{4,})/ matches at i with the closing
\* slash at j
CourseUrlAt(s, i, j) ==
    /\ OccursAt(s, CoursePath, i)
    /\ j <= Len(s) /\ j >= i + Len(CoursePath) + 4
    /\ s[j] = "/"
    /\ \A k \in (i + Len(CoursePath))..(j - 1) : IsUrlCodeChar(s[k])

\* a bug: the parenthesized identifier is tried before the KTH-style one
detect_course_code_parens_first(summary, description) ==
    LET s    == OrEmpty(summary)
        d    == OrEmpty(description)
        kth  == {i \in 1..Len(s) : KthStyleAt(s, i)}
        par  == {i \in 1..Len(s) : \E j \in 1..Len(s) : ParensAt(s, i, j)}
    IN  IF par # {}
        THEN LET i == Leftmost(par)
                 j == CHOOSE j \in 1..Len(s) : ParensAt(s, i, j)
             IN  Slice(s, i + 1, j - 1)
        ELSE IF kth # {}
        THEN LET i == Leftmost(kth) IN Slice(s, i, i + 5)
        ELSE None

detect_course_code(summary, description) ==
    LET s    == OrEmpty(summary)
        d    == OrEmpty(description)
        kth  == {i \in 1..Len(s) : KthStyleAt(s, i)}
        par  == {i \in 1..Len(s) : \E j \in 1..Len(s) : ParensAt(s, i, j)}
        url  == {i \in 1..Len(d) : \E j \in 1..Len(d) : CourseUrlAt(d, i, j)}
    IN  IF kth # {}
        THEN LET i == Leftmost(kth) IN Slice(s, i, i + 5)
        ELSE IF par # {}
        THEN LET i == Leftmost(par)
                 j == CHOOSE j \in 1..Len(s) : ParensAt(s, i, j)
             IN  Slice(s, i + 1, j - 1)
        ELSE IF url # {}
        THEN LET i == Leftmost(url)
                 j == CHOOSE j \in 1..Len(d) : CourseUrlAt(d, i, j)
             IN  Slice(d, i + Len(CoursePath), j - 1)
        ELSE None

-----------------------------------------------------------------------------
(* JSON values of a rule document, tagged by their Python type.  A key that *)
(* a dict does not hold has the value Absent.                               *)

Absent == [t |-> "absent"]

JNull == [t |-> "null"]

JStr(s) == [t |-> "str", s |-> s]

JInt(n) == [t |-> "int", n |-> n]

JBool(b) == [t |-> "bool", b |-> b]

JList(l) == [t |-> "list", l |-> l]

JDict(d) == [t |-> "dict", d |-> d]

\* dict.get(key) of Python: None for a missing key
Get(v) == IF v.t = "absent" THEN JNull ELSE v

\* bool(v)
Truthy(v) ==
    CASE v.t = "absent" -> FALSE
      [] v.t = "null"   -> FALSE
      [] v.t = "str"    -> v.s # <<>>
      [] v.t = "int"    -> v.n # 0
      [] v.t = "bool"   -> v.b
      [] v.t = "list"   -> v.l # <<>>
      [] OTHER          -> TRUE

\* str(n) of an int
SignedIntToText(n) == IF n < 0 THEN <<"-">> \o IntToText(0 - n) ELSE IntToText(n)

\* str(v)
PyStr(v) ==
    CASE v.t = "str"  -> v.s
      [] v.t = "int"  -> SignedIntToText(v.n)
      [] v.t = "bool" -> IF v.b THEN <<"T","r","u","e">> ELSE <<"F","a","l","s","e">>
      [] OTHER        -> <<"N","o","n","e">>

\* int(s) of a str: surrounding whitespace and a sign are accepted, the rest
\* must be ASCII digits (digit-group underscores are not modelled)
IntOfText(s) ==
    LET t    == Strip(s)
        sign == t # <<>> /\ t[1] \in {"-", "+"}
        body == IF sign THEN Tail(t) ELSE t
    IN  IF body # <<>> /\ \A i \in 1..Len(body) : IsDigit(body[i])
        THEN Ok(IF sign /\ t[1] = "-" THEN 0 - DigitsToInt(body) ELSE DigitsToInt(body))
        ELSE Raise("ValueError")

\* int(v)
PyInt(v) ==
    CASE v.t = "int"  -> Ok(v.n)
      [] v.t = "bool" -> Ok(IF v.b THEN 1 ELSE 0)
      [] v.t = "str"  -> IntOfText(v.s)
      [] OTHER        -> Raise("TypeError")

-----------------------------------------------------------------------------
(* Regular expressions.  A pattern string of a rule document is modelled by *)
(* its parsed form [compiles, shape, word]; the shapes are                  *)
(*   "num_star"  \bWORD\s*(\d+)\b      "num_plus"  \bWORD\s+(\d+)\b         *)
(*   "opt_num"   WORD(?:\s(\d+))?      "word_arg"  WORD\s(\w+)              *)
(*   "plain"     WORD                                                       *)
(* and every search is case-insensitive (re.IGNORECASE), as the code        *)
(* compiles them.  compiles = FALSE is a string re.compile rejects.         *)

Regex(shape, word) == [compiles |-> TRUE, shape |-> shape, word |-> word]

BadRegex == [compiles |-> FALSE, shape |-> "plain", word |-> <<"(">>]

NoMatch == [found |-> FALSE, ngroups |-> 0, g1 |-> None]

\* the match of re at position i of s, or NoMatch
MatchAt(re, s, i) ==
    LET a  == i + Len(re.word)             \* first position after WORD
        sp == RunOfSpace(s, a)
        dg == RunOfDigits(s, a + sp)
    IN  IF ~OccursAtNoCase(s, re.word, i) THEN NoMatch
        ELSE CASE re.shape \in {"num_star", "num_plus"} ->
                    IF /\ WordBoundary(s, i)
                       /\ (re.shape = "num_plus" => sp >= 1)
                       /\ dg >= 1
                       /\ WordBoundary(s, a + sp + dg)
                    THEN [found |-> TRUE, ngroups |-> 1,
                          g1 |-> Slice(s, a + sp, a + sp + dg - 1)]
                    ELSE NoMatch
               [] re.shape = "opt_num" ->
                    IF a <= Len(s) /\ IsSpace(s[a]) /\ RunOfDigits(s, a + 1) >= 1
                    THEN [found |-> TRUE, ngroups |-> 1,
                          g1 |-> Slice(s, a + 1, a + RunOfDigits(s, a + 1))]
                    ELSE [found |-> TRUE, ngroups |-> 1, g1 |-> None]
               [] re.shape = "word_arg" ->
                    IF a <= Len(s) /\ IsSpace(s[a]) /\ RunOfWord(s, a + 1) >= 1
                    THEN [found |-> TRUE, ngroups |-> 1,
                          g1 |-> Slice(s, a + 1, a + RunOfWord(s, a + 1))]
                    ELSE NoMatch
               [] OTHER -> [found |-> TRUE, ngroups |-> 0, g1 |-> None]

\* pattern.search(s): the leftmost match
Search(re, s) ==
    LET at == {i \in 1..(Len(s) + 1) : MatchAt(re, s, i).found}
    IN  IF at = {} THEN NoMatch ELSE MatchAt(re, s, Leftmost(at))

\* rules.py:12 (and rewrite.py:24), rewrite.py:25, rewrite.py:26
DEFAULT_SUMMARY_RE == Regex("num_star", <<"L","e","c","t","u","r","e">>)

RE_LAB == Regex("num_plus", <<"L","a","b">>)

RE_EXERCISE == Regex("num_plus", <<"E","x","e","r","c","i","s","e">>)

\* int(m.group(1)): a group that did not participate is None
IntOfGroup(m) ==
    IF m.ngroups = 0 THEN Raise("IndexError")
    ELSE IF m.g1 = None THEN Raise("TypeError")
    ELSE IntOfText(m.g1)

-----------------------------------------------------------------------------
(* Format templates.  A template string is modelled by what                 *)
(* string.Formatter.parse yields for it: a sequence of pieces               *)
(* [lit, field, conv, spec], field = NoField for a trailing literal, and    *)
(* malformed = TRUE for a string the parser rejects (a single brace).       *)

NoField == "<none>"

Piece(lit, f) == [lit |-> lit, field |-> f, conv |-> "", spec |-> ""]

Template(pieces) == [malformed |-> FALSE, pieces |-> pieces]

\* "{kind} {n} - {title} - {course}"  (rules.py:183)
DefaultTitleTemplate ==
    Template(<< Piece(<<>>, "kind"), Piece(<<" ">>, "n"),
                Piece(<<" ","-"," ">>, "title"), Piece(<<" ","-"," ">>, "course") >>)

\* "{module}\nCanvas: {canvas}\n\n{old_desc}"  (rules.py:184)
DefaultDescriptionTemplate ==
    Template(<< Piece(<<>>, "module"),
                Piece(<<"\n","C","a","n","v","a","s",":"," ">>, "canvas"),
                Piece(<<"\n","\n">>, "old_desc") >>)

TitleVars == {"kind", "n", "title", "course"}

DescriptionVars == {"module", "canvas", "old_desc"}

validate_template(template, allowed_vars) ==
    IF template.malformed THEN FALSE
    ELSE LET used_vars == {template.pieces[i].field : i \in DOMAIN template.pieces}
                              \ {NoField, ""}
         IN  used_vars \subseteq allowed_vars

\* format(value, spec) with conversion conv applied first; value is a JSON value
FormatField(value, conv, spec) ==
    LET quoted == conv = "r" /\ value.t = "str"
        text   == IF quoted THEN <<"'">> \o value.s \o <<"'">> ELSE PyStr(value)
        isnum  == value.t = "int" /\ conv = ""
    IN  IF conv \notin {"", "r", "s", "a"} THEN Raise("ValueError")
        ELSE IF spec = "" THEN Ok(text)
        ELSE IF spec = "{foo}" THEN Raise("KeyError")
        ELSE IF spec = "d" /\ isnum THEN Ok(text)
        ELSE Raise("ValueError")

\* the outcome of rendering one piece with keyword arguments kw
FormatPiece(piece, kw) ==
    IF piece.field = NoField THEN Ok(piece.lit)
    ELSE IF piece.field = "" \/ piece.field = "0" THEN Raise("IndexError")
    ELSE IF piece.field \notin DOMAIN kw THEN Raise("KeyError")
    ELSE LET r == FormatField(kw[piece.field], piece.conv, piece.spec)
         IN  IF r.exc = "none" THEN Ok(piece.lit \o r.val) ELSE r

\* template.format(**kw): the first piece that fails decides the exception
RECURSIVE FormatPieces(_, _)
FormatPieces(pieces, kw) ==
    IF pieces = <<>> THEN Ok(<<>>)
    ELSE LET h == FormatPiece(Head(pieces), kw)
         IN  IF h.exc # "none" THEN h
             ELSE LET r == FormatPieces(Tail(pieces), kw)
                  IN  IF r.exc # "none" THEN r ELSE Ok(h.val \o r.val)

Format(template, kw) ==
    IF template.malformed THEN Raise("ValueError") ELSE FormatPieces(template.pieces, kw)

-----------------------------------------------------------------------------
(* Schema loader: rules.py detect_schema *)

SchemaAMarkers == { <<"A">>, <<"a">>, <<"1">> }

SchemaBMarkers == { <<"B">>, <<"b">>, <<"2">> }

\* a bug: a document with both identifiers is read as Schema B
detect_schema_prefers_b(data) ==
    LET version     == data.schema_version
        has_course      == data.course.t # "absent"
        has_course_code == data.course_code.t # "absent"
    IN  IF version.t = "str" /\ version.s \in SchemaAMarkers THEN Ok("A")
        ELSE IF version.t = "str" /\ version.s \in SchemaBMarkers THEN Ok("B")
        ELSE IF has_course_code THEN Ok("B")
        ELSE IF has_course THEN Ok("A")
        ELSE Raise("ValueError")

\* data is the dict of a rule document
detect_schema(data) ==
    LET version     == data.schema_version
        has_course      == data.course.t # "absent"
        has_course_code == data.course_code.t # "absent"
    IN  IF version.t = "str" /\ version.s \in SchemaAMarkers THEN Ok("A")
        ELSE IF version.t = "str" /\ version.s \in SchemaBMarkers THEN Ok("B")
        ELSE IF has_course /\ ~has_course_code THEN Ok("A")
        ELSE IF has_course_code /\ ~has_course THEN Ok("B")
        ELSE IF has_course /\ has_course_code THEN Ok("A")
        ELSE Raise("ValueError")

-----------------------------------------------------------------------------
(* Rule sets: rules.py MatchStrategy, EventItem, EventType, CourseRules.    *)
(* A dict whose order matters (EventType.items, the legacy buckets) is a    *)
(* sequence of entries with distinct keys, in insertion order.              *)

JPattern(re) == [t |-> "pattern", re |-> re]        \* a str read as a regular expression

JTemplate(tpl) == [t |-> "template", tpl |-> tpl]   \* a str read as a format template

DefaultPriority == 99

NoStrategyData == [timeslot |-> Absent, pattern |-> Absent, location |-> Absent,
                   strategies |-> Absent]

\* MatchStrategy.from_dict; data is a JSON value
MatchStrategy_from_dict(data) ==
    IF data.t # "dict" THEN Raise("AttributeError")
    ELSE Ok([strategy |-> data.d.strategy,
             data     |-> [k \in DOMAIN NoStrategyData |-> data.d[k]],
             priority |-> IF data.d.priority.t = "absent" THEN JInt(DefaultPriority)
                          ELSE data.d.priority])

\* [MatchStrategy.from_dict(x) for x in list]: the first failure propagates
RECURSIVE StrategiesFromList(_)
StrategiesFromList(l) ==
    IF l = <<>> THEN Ok(<<>>)
    ELSE Try(MatchStrategy_from_dict(Head(l)), LAMBDA h :
         Try(StrategiesFromList(Tail(l)), LAMBDA r : Ok(<<h>> \o r)))

MetadataKeys == {"title", "module", "room"}

NoMetadata == [k \in MetadataKeys |-> Absent]

\* EventItem.get(key): metadata.get(key, "")
ItemGet(item, key) == IF item.metadata[key].t = "absent" THEN JStr(<<>>) ELSE item.metadata[key]

\* a bug: the legacy shorthands timeslot and group win over match
EventItem_from_dict_shorthand_first(data) ==
    IF data.t # "dict" THEN Raise("AttributeError")
    ELSE
    LET d      == data.d
        number == With(PyInt(Get(d.number)), LAMBDA parsed :
                      IF Get(d.number).t = "null" \/ parsed.exc # "none" THEN NoNum
                      ELSE Num(parsed.val))
        strategies ==
            IF d.match_priority.t # "absent"
            THEN IF d.match_priority.t # "list" THEN Raise("TypeError")
                 ELSE StrategiesFromList(d.match_priority.l)
            ELSE IF d.timeslot.t # "absent"
            THEN Ok(<< [strategy |-> "time",
                        data |-> [NoStrategyData EXCEPT !.timeslot = d.timeslot],
                        priority |-> JInt(DefaultPriority)] >>)
            ELSE IF d.group.t # "absent"
            THEN Ok(<< [strategy |-> "description",
                        data |-> [NoStrategyData EXCEPT !.pattern = d.group],
                        priority |-> JInt(DefaultPriority)] >>)
            ELSE IF d.match.t # "absent"
            THEN StrategiesFromList(<<d.match>>)
            ELSE Ok(<<>>)
    IN  Try(strategies, LAMBDA match_strategies :
            Ok([number |-> number,
                metadata |-> [k \in MetadataKeys |-> d[k]],
                match_strategies |-> match_strategies]))

\* EventItem.from_dict; data is a JSON value
EventItem_from_dict(data) ==
    IF data.t # "dict" THEN Raise("AttributeError")
    ELSE
    LET d      == data.d
        number == With(PyInt(Get(d.number)), LAMBDA parsed :
                      IF Get(d.number).t = "null" \/ parsed.exc # "none" THEN NoNum
                      ELSE Num(parsed.val))
        strategies ==
            IF d.match_priority.t # "absent"
            THEN IF d.match_priority.t # "list" THEN Raise("TypeError")
                 ELSE StrategiesFromList(d.match_priority.l)
            ELSE IF d.match.t # "absent"
            THEN StrategiesFromList(<<d.match>>)
            ELSE IF d.timeslot.t # "absent"
            THEN Ok(<< [strategy |-> "time",
                        data |-> [NoStrategyData EXCEPT !.timeslot = d.timeslot],
                        priority |-> JInt(DefaultPriority)] >>)
            ELSE IF d.group.t # "absent"
            THEN Ok(<< [strategy |-> "description",
                        data |-> [NoStrategyData EXCEPT !.pattern = d.group],
                        priority |-> JInt(DefaultPriority)] >>)
            ELSE Ok(<<>>)
    IN  Try(strategies, LAMBDA match_strategies :
            Ok([number |-> number,
                metadata |-> [k \in MetadataKeys |-> d[k]],
                match_strategies |-> match_strategies]))

\* d[k] = v for a dict kept as a sequence of entries keyed by .number
DictPut(d, entry) ==
    IF \E i \in DOMAIN d : d[i].number = entry.number
    THEN [i \in DOMAIN d |-> IF d[i].number = entry.number THEN entry ELSE d[i]]
    ELSE Append(d, entry)

DictHas(d, k) == \E i \in DOMAIN d : d[i].number = k

\* d.get(k): the entry, for a key the dict holds
DictGet(d, k) == d[CHOOSE i \in DOMAIN d : d[i].number = k]

DictKeys(d) == {d[i].number : i \in DOMAIN d}

\* items[item.number] = item, for each item definition in turn
RECURSIVE ItemsFromList(_, _)
ItemsFromList(l, items) ==
    IF l = <<>> THEN Ok(items)
    ELSE Try(EventItem_from_dict(Head(l)), LAMBDA item :
             ItemsFromList(Tail(l), DictPut(items, item)))

\* the patterns of an event type that compile; a non-string pattern makes
\* re.compile raise TypeError, which EventType.from_dict does not catch
RECURSIVE CompilePatterns(_)
CompilePatterns(l) ==
    IF l = <<>> THEN Ok(<<>>)
    ELSE IF Head(l).t # "pattern" THEN Raise("TypeError")
    ELSE LET r == CompilePatterns(Tail(l))
         IN  IF r.exc # "none" THEN r
             ELSE IF Head(l).re.compiles THEN Ok(<<Head(l).re>> \o r.val) ELSE r

UnknownType == <<"u","n","k","n","o","w","n">>

\* EventType.from_dict; data is the dict of one event type
EventType_from_dict(data) ==
    LET type_name == IF data.type.t = "absent" THEN JStr(UnknownType) ELSE data.type
        pattern_list == IF data.patterns.t = "absent" THEN <<>>
                        ELSE IF data.patterns.t = "pattern" THEN <<data.patterns>>
                        ELSE data.patterns.l
        patterns == CompilePatterns(pattern_list)
        items == ItemsFromList(IF data.items.t = "absent" THEN <<>> ELSE data.items.l, <<>>)
    IN  IF type_name.t # "str" THEN Raise("AttributeError")     \* type_name.capitalize()
        ELSE IF data.patterns.t \notin {"absent", "pattern", "list"} THEN Raise("TypeError")
        ELSE Try(patterns, LAMBDA compiled :
             IF data.items.t \notin {"absent", "list"} THEN Raise("TypeError")
             ELSE Try(items, LAMBDA parsed :
                  Ok([type |-> type_name.s,
                      display_name |-> IF data.display_name.t = "absent"
                                       THEN JStr(Capitalize(type_name.s))
                                       ELSE data.display_name,
                      patterns |-> compiled,
                      items |-> parsed,
                      unnumbered |-> Truthy(data.unnumbered)])))

-----------------------------------------------------------------------------
(* Schema loader: rules.py CourseRules.from_json *)

NoRegex == [compiles |-> FALSE, shape |-> "none", word |-> <<>>]

\* CourseRules(course) with the dataclass defaults (rules.py:178-190)
NewCourseRules(course) ==
    [course |-> course, canvas |-> None, require_course_in_summary |-> FALSE,
     summary_regex |-> NoRegex,
     title_template |-> DefaultTitleTemplate,
     description_template |-> DefaultDescriptionTemplate,
     event_types |-> <<>>, lectures |-> <<>>, labs |-> <<>>, exercises |-> <<>>]

\* (data.get(key) or "").strip() or None
CanvasOf(v) ==
    IF ~Truthy(v) THEN Ok(None)
    ELSE IF v.t # "str" THEN Raise("AttributeError")
    ELSE Ok(IF Strip(v.s) = <<>> THEN None ELSE Strip(v.s))

NoMatchSection == [require_course_in_summary |-> Absent, summary_regex |-> Absent]

\* match = data.get("match") or {} and the two fields read from it
MatchSectionOf(v) ==
    IF ~Truthy(v) THEN Ok(NoMatchSection)
    ELSE IF v.t # "dict" THEN Raise("AttributeError")
    ELSE Ok(v.d)

\* the compiled summary_regex: an invalid pattern falls back to the default
SummaryRegexOf(srx) ==
    IF ~Truthy(srx) THEN Ok(NoRegex)
    ELSE IF srx.t # "pattern" THEN Raise("TypeError")
    ELSE Ok(IF srx.re.compiles THEN srx.re ELSE DEFAULT_SUMMARY_RE)

\* a template of the document, or the default when it is absent or invalid
TemplateOf(v, allowed_vars, default) ==
    IF v.t = "absent" THEN default
    ELSE IF validate_template(v.tpl, allowed_vars) THEN v.tpl
    ELSE default

\* str(item.get(key, "")).strip()
ItemText(v) == IF v.t = "absent" THEN <<>> ELSE Strip(PyStr(v))

\* a bug: an entry whose number the bucket already holds is skipped
RECURSIVE ingest_first_wins(_, _)
ingest_first_wins(arr, dest) ==
    IF arr = <<>> THEN dest
    ELSE LET item == Head(arr)
             n    == IF item.t = "dict" THEN PyInt(Get(item.d.number)) ELSE Raise("TypeError")
         IN  IF item.t # "dict" \/ n.exc # "none" \/ n.val <= 0
                \/ \E i \in DOMAIN dest : dest[i].number = n.val
             THEN ingest_first_wins(Tail(arr), dest)
             ELSE ingest_first_wins(Tail(arr),
                         Append(dest, [number |-> n.val,
                                       title  |-> ItemText(item.d.title),
                                       module |-> ItemText(item.d.module)]))

\* the loop over a legacy numbered list (rules.py:228-260 and ingest, 329-365)
RECURSIVE ingest(_, _)
ingest(arr, dest) ==
    IF arr = <<>> THEN dest
    ELSE LET item == Head(arr)
             n    == IF item.t = "dict" THEN PyInt(Get(item.d.number)) ELSE Raise("TypeError")
         IN  IF item.t # "dict" \/ n.exc # "none" \/ n.val <= 0
             THEN ingest(Tail(arr), dest)
             ELSE ingest(Tail(arr),
                         DictPut(dest, [number |-> n.val,
                                        title  |-> ItemText(item.d.title),
                                        module |-> ItemText(item.d.module)]))

\* data.get(key) or []  for a legacy list, as the loop enumerates it: a
\* number or True cannot be iterated; the characters of a str and the keys of
\* a dict are entries that are not dicts, all skipped
LegacyList(v) ==
    IF v.t = "list" THEN Ok(v.l)
    ELSE IF v.t \in {"int", "bool"} /\ Truthy(v) THEN Raise("TypeError")
    ELSE Ok(<<>>)

\* the bucket that the loop fills from the value of a legacy key
Bucket(v) == Try(LegacyList(v), LAMBDA arr : Ok(ingest(arr, <<>>)))

\* the loop over data["event_types"]: a non-dict entry and an entry that
\* fails to parse are skipped
RECURSIVE ParseEventTypes(_)
ParseEventTypes(l) ==
    IF l = <<>> THEN <<>>
    ELSE With(IF Head(l).t = "dict" THEN EventType_from_dict(Head(l).d) ELSE Raise("skip"),
              LAMBDA h : (IF h.exc # "none" THEN <<>> ELSE <<h.val>>)
                         \o ParseEventTypes(Tail(l)))

\* automatic migration of one legacy bucket into an EventType
MigratedType(type, display_name, pattern, bucket) ==
    [type |-> type, display_name |-> JStr(display_name), patterns |-> <<pattern>>,
     items |-> [i \in DOMAIN bucket |->
                  [number |-> Num(bucket[i].number),
                   metadata |-> [NoMetadata EXCEPT !.title = JStr(bucket[i].title),
                                                   !.module = JStr(bucket[i].module)],
                   match_strategies |-> <<>>]],
     unnumbered |-> FALSE]

LectureText == <<"l","e","c","t","u","r","e">>

LabText == <<"l","a","b">>

ExerciseText == <<"e","x","e","r","c","i","s","e">>

\* a bug: only the lectures are migrated, as under Schema A
MigratedTypes_lectures_only(lectures, labs, exercises) ==
    IF lectures # <<>>
    THEN <<MigratedType(LectureText, Capitalize(LectureText), DEFAULT_SUMMARY_RE, lectures)>>
    ELSE <<>>

MigratedTypes(lectures, labs, exercises) ==
    (IF lectures # <<>>
     THEN <<MigratedType(LectureText, Capitalize(LectureText), DEFAULT_SUMMARY_RE, lectures)>>
     ELSE <<>>)
    \o (IF labs # <<>>
        THEN <<MigratedType(LabText, Capitalize(LabText), RE_LAB, labs)>> ELSE <<>>)
    \o (IF exercises # <<>>
        THEN <<MigratedType(ExerciseText, Capitalize(ExerciseText), RE_EXERCISE, exercises)>>
        ELSE <<>>)

\* what both branches of from_json do once the course is known
LoadBody(data, course, canvas_value, lecture_list, lab_list, exercise_list) ==
    LET canvas == CanvasOf(canvas_value)
        match  == MatchSectionOf(data.match)
        srx    == SummaryRegexOf(match.val.summary_regex)
    IN  IF canvas.exc # "none" THEN canvas
        ELSE IF match.exc # "none" THEN match
        ELSE IF srx.exc # "none" THEN srx
        ELSE Try(lecture_list, LAMBDA lectures :
             Try(lab_list, LAMBDA labs :
             Try(exercise_list, LAMBDA exercises :
             IF data.event_types.t \notin {"absent", "list"} THEN Raise("TypeError")
             ELSE Ok([NewCourseRules(course) EXCEPT
                  !.canvas = canvas.val,
                  !.require_course_in_summary = Truthy(match.val.require_course_in_summary),
                  !.summary_regex = srx.val,
                  !.title_template =
                      TemplateOf(data.title_template, TitleVars, DefaultTitleTemplate),
                  !.description_template =
                      TemplateOf(data.description_template, DescriptionVars,
                                 DefaultDescriptionTemplate),
                  !.lectures = lectures, !.labs = labs, !.exercises = exercises,
                  !.event_types =
                      IF data.event_types.t = "list"
                      THEN ParseEventTypes(data.event_types.l)
                      ELSE MigratedTypes(lectures, labs, exercises)]))))

\* CourseRules.from_json; data is the dict of a rule document
from_json(data) ==
    LET schema == detect_schema(data)
    IN  IF schema.exc # "none" THEN schema
        ELSE IF schema.val = "A"
        THEN IF data.course.t = "absent" THEN Raise("KeyError")      \* data["course"]
             ELSE LoadBody(data, Strip(PyStr(data.course)), Get(data.canvas),
                           Bucket(data.items), Ok(<<>>), Ok(<<>>))
        ELSE LET course == IF data.course_code.t = "absent" THEN <<>>
                           ELSE Strip(PyStr(data.course_code))
             IN  IF course = <<>> THEN Raise("ValueError")
                 ELSE LoadBody(data, course, Get(data.canvas_url),
                               Bucket(data.lectures), Bucket(data.labs),
                               Bucket(data.exercises))

\* rules.py load_course_rules_dir: files is the content of the *.json files
\* of the directory in sorted name order; the result maps course -> rule set,
\* kept as a sequence of rule sets with distinct courses in insertion order
LoadFile(file) ==
    IF file.t = "garbage" THEN Raise("JSONDecodeError")       \* json.loads
    ELSE IF file.t \in {"null", "int", "bool"} THEN Raise("TypeError")  \* "schema_version" in data
    ELSE IF file.t # "dict" THEN Raise("ValueError")          \* a list: no key is found
    ELSE from_json(file.d)

RulesPut(rules, cr) ==
    IF \E i \in DOMAIN rules : rules[i].course = cr.course
    THEN [i \in DOMAIN rules |-> IF rules[i].course = cr.course THEN cr ELSE rules[i]]
    ELSE Append(rules, cr)

RECURSIVE LoadFiles(_, _)
LoadFiles(files, rules) ==
    IF files = <<>> THEN rules
    ELSE With(LoadFile(Head(files)), LAMBDA r :
              LoadFiles(Tail(files), IF r.exc = "none" THEN RulesPut(rules, r.val) ELSE rules))

\* a bug: no try/except around the load of one file
load_course_rules_dir_uncaught(files) ==
    IF \E i \in DOMAIN files : LoadFile(files[i]).exc # "none"
    THEN LoadFile(files[CHOOSE i \in DOMAIN files : LoadFile(files[i]).exc # "none"])
    ELSE Ok(LoadFiles(files, <<>>))

load_course_rules_dir(files) == Ok(LoadFiles(files, <<>>))

-----------------------------------------------------------------------------
(* Match engine: rewrite.py matches_strategy and matches_item.  The start   *)
(* time of an event is NoStart (None) or a datetime reduced to what the     *)
(* code reads of it: weekday() (Monday = 0), hour and minute.               *)

NoStart == [t |-> "none"]

StartAt(weekday, hour, minute) ==
    [t |-> "datetime", weekday |-> weekday, hour |-> hour, minute |-> minute]

\* s[a-1:b] of Python for 1-based a..b: a slice never fails on a short string
PySlice(s, a, b) == SubSeq(s, a, IF b < Len(s) THEN b ELSE Len(s))

RECURSIVE RemoveColons(_)
RemoveColons(s) ==
    IF s = <<>> THEN <<>>
    ELSE IF Head(s) = ":" THEN RemoveColons(Tail(s))
    ELSE <<Head(s)>> \o RemoveColons(Tail(s))

\* parse_time (rewrite.py:264-266); v is a JSON value
parse_time(v) ==
    IF v.t # "str" THEN Raise("AttributeError")          \* t.replace
    ELSE With(RemoveColons(v.s), LAMBDA t :
         Try(IntOfText(PySlice(t, 1, 2)), LAMBDA h :
         Try(IntOfText(PySlice(t, 3, 4)), LAMBDA m : Ok(h * 60 + m))))

DayNames == << <<"m","o","n","d","a","y">>, <<"t","u","e","s","d","a","y">>,
               <<"w","e","d","n","e","s","d","a","y">>, <<"t","h","u","r","s","d","a","y">>,
               <<"f","r","i","d","a","y">>, <<"s","a","t","u","r","d","a","y">>,
               <<"s","u","n","d","a","y">> >>

\* the number the configured day is compared with; -1 equals no weekday
DayIndex(day) ==
    CASE day.t = "str" ->
            IF \E i \in DOMAIN DayNames : DayNames[i] = Lower(day.s)
            THEN (CHOOSE i \in DOMAIN DayNames : DayNames[i] = Lower(day.s)) - 1
            ELSE -1
      [] day.t = "int"  -> day.n
      [] day.t = "bool" -> IF day.b THEN 1 ELSE 0
      [] OTHER -> -1

NoTimeslot == [day |-> Absent, start_time |-> Absent, end_time |-> Absent]

\* the 'time' branch once start_dt is known to be present
MatchesTime(strategy, start_dt) ==
    LET raw      == strategy.data.timeslot
        timeslot == IF raw.t = "dict" THEN raw.d ELSE NoTimeslot
        bounds   == timeslot.start_time.t # "absent" /\ timeslot.end_time.t # "absent"
        event_minutes == start_dt.hour * 60 + start_dt.minute
    IN  IF raw.t = "str" THEN Ok(FALSE)
        ELSE IF raw.t \in {"null", "int", "bool"} THEN Raise("TypeError")  \* "day" in timeslot
        ELSE IF timeslot.day.t # "absent" /\ start_dt.weekday # DayIndex(timeslot.day)
        THEN Ok(FALSE)
        ELSE IF ~bounds THEN Ok(TRUE)
        ELSE Try(parse_time(timeslot.start_time), LAMBDA range_start :
             Try(parse_time(timeslot.end_time), LAMBDA range_end :
                 Ok(range_start <= event_minutes /\ event_minutes < range_end)))

\* the 'description' and 'url' branches: a regular expression searched in text
MatchesPattern(strategy, text) ==
    LET pattern_str == strategy.data.pattern
    IN  IF ~Truthy(pattern_str) THEN Ok(FALSE)
        ELSE IF pattern_str.t # "pattern" THEN Raise("TypeError")     \* re.compile
        ELSE IF ~pattern_str.re.compiles THEN Ok(FALSE)                \* re.error
        ELSE Ok(Search(pattern_str.re, text).found)

MatchesLocation(strategy, location) ==
    LET expected_location == strategy.data.location
    IN  IF ~Truthy(expected_location) THEN Ok(FALSE)
        ELSE IF expected_location.t # "str" THEN Raise("AttributeError")   \* .lower()
        ELSE Ok(Contains(Lower(OrEmpty(location)), Lower(expected_location.s)))

RECURSIVE matches_strategy(_, _, _, _, _)

\* the loop of the 'all' branch over the nested specs
RECURSIVE AllMatch(_, _, _, _, _)
AllMatch(subs, summary, description, location, start_dt) ==
    IF subs = <<>> THEN Ok(TRUE)
    ELSE Try(MatchStrategy_from_dict(Head(subs)), LAMBDA sub_strategy :
         Try(matches_strategy(sub_strategy, summary, description, location, start_dt),
             LAMBDA m : IF ~m THEN Ok(FALSE)
                        ELSE AllMatch(Tail(subs), summary, description, location, start_dt)))

\* the loop of the 'any' branch
RECURSIVE AnyMatch(_, _, _, _, _)
AnyMatch(subs, summary, description, location, start_dt) ==
    IF subs = <<>> THEN Ok(FALSE)
    ELSE Try(MatchStrategy_from_dict(Head(subs)), LAMBDA sub_strategy :
         Try(matches_strategy(sub_strategy, summary, description, location, start_dt),
             LAMBDA m : IF m THEN Ok(TRUE)
                        ELSE AnyMatch(Tail(subs), summary, description, location, start_dt)))

\* what `for sub_data in sub_strategies` iterates over: a str yields its
\* characters, none of which is a dict
SubStrategies(v) ==
    CASE v.t = "absent" -> Ok(<<>>)
      [] v.t = "list"   -> Ok(v.l)
      [] v.t = "str"    -> Ok([i \in 1..Len(v.s) |-> JStr(<<v.s[i]>>)])
      [] OTHER          -> Raise("TypeError")

matches_strategy(strategy, summary, description, location, start_dt) ==
    CASE strategy.strategy = "time" ->
            IF start_dt.t = "none" THEN Ok(FALSE) ELSE MatchesTime(strategy, start_dt)
      [] strategy.strategy = "description" ->
            MatchesPattern(strategy, OrEmpty(summary) \o <<" ">> \o OrEmpty(description))
      [] strategy.strategy = "location" -> MatchesLocation(strategy, location)
      [] strategy.strategy = "url" -> MatchesPattern(strategy, OrEmpty(description))
      [] strategy.strategy = "all" ->
            Try(SubStrategies(strategy.data.strategies), LAMBDA subs :
                AllMatch(subs, summary, description, location, start_dt))
      [] strategy.strategy = "any" ->
            Try(SubStrategies(strategy.data.strategies), LAMBDA subs :
                AnyMatch(subs, summary, description, location, start_dt))
      [] OTHER -> Ok(FALSE)

\* sorted(strategies, key=priority): stable; comparing a priority that is not
\* a number raises TypeError (it takes two strategies to compare)
RECURSIVE InsertByPriority(_, _)
InsertByPriority(sorted, x) ==
    IF sorted = <<>> THEN <<x>>
    ELSE IF Head(sorted).priority.n <= x.priority.n
    THEN <<Head(sorted)>> \o InsertByPriority(Tail(sorted), x)
    ELSE <<x>> \o sorted

RECURSIVE SortedByPriority(_)
SortedByPriority(l) ==
    IF l = <<>> THEN <<>>
    ELSE InsertByPriority(SortedByPriority(SubSeq(l, 1, Len(l) - 1)), l[Len(l)])

RECURSIVE FirstMatch(_, _, _, _, _)
FirstMatch(strategies, summary, description, location, start_dt) ==
    IF strategies = <<>> THEN Ok(FALSE)
    ELSE Try(matches_strategy(Head(strategies), summary, description, location, start_dt),
             LAMBDA m : IF m THEN Ok(TRUE)
                        ELSE FirstMatch(Tail(strategies), summary, description, location,
                                        start_dt))

matches_item(item, summary, description, location, start_dt) ==
    IF item.match_strategies = <<>> THEN Ok(TRUE)
    ELSE IF /\ Len(item.match_strategies) >= 2
            /\ \E i \in DOMAIN item.match_strategies :
                  item.match_strategies[i].priority.t # "int"
    THEN Raise("TypeError")
    ELSE FirstMatch(SortedByPriority(item.match_strategies),
                    summary, description, location, start_dt)

-----------------------------------------------------------------------------
(* Rewrite engine: rewrite.py extract_number_and_kind and rewrite_event.    *)
(* An Optional[CourseRules] is <<>> (None) or <<cr>>.  Titles, modules and  *)
(* display names are JSON values, as the metadata of an item holds them.    *)

NoRules == <<>>

Extracted(n, kind) == [n |-> n, kind |-> kind]

\* the nested loops over event types and their patterns, as one list of
\* [event_type, pattern] in the order the loops visit them
RECURSIVE TypePatterns(_)
TypePatterns(event_types) ==
    IF event_types = <<>> THEN <<>>
    ELSE [i \in DOMAIN Head(event_types).patterns |->
            [event_type |-> Head(event_types), pattern |-> Head(event_types).patterns[i]]]
         \o TypePatterns(Tail(event_types))

\* the legacy fixed patterns (rewrite.py:100-117), after the rule set's own
\* summary_regex when it has one (rewrite.py:93-99)
LegacyPatterns(summary_regex) ==
    (IF summary_regex # NoRegex THEN << [pattern |-> summary_regex, kind |-> LectureText] >>
     ELSE <<>>)
    \o << [pattern |-> DEFAULT_SUMMARY_RE, kind |-> LectureText],
          [pattern |-> RE_LAB, kind |-> LabText],
          [pattern |-> RE_EXERCISE, kind |-> ExerciseText] >>

\* try: return int(m.group(1)), kind   except Exception: pass
RECURSIVE TryLegacy(_, _)
TryLegacy(l, s) ==
    IF l = <<>> THEN Extracted(NoNum, None)
    ELSE With(Search(Head(l).pattern, s), LAMBDA m :
         With(IF m.found THEN IntOfGroup(m) ELSE Raise("skip"), LAMBDA n :
              IF n.exc = "none" THEN Extracted(Num(n.val), Head(l).kind)
              ELSE TryLegacy(Tail(l), s)))

\* the loop of rewrite.py:72-89; only ValueError and IndexError are caught
RECURSIVE TryTypePatterns(_, _, _)
TryTypePatterns(l, s, summary_regex) ==
    IF l = <<>> THEN Ok(TryLegacy(LegacyPatterns(summary_regex), s))
    ELSE With(Search(Head(l).pattern, s), LAMBDA m :
         IF ~m.found THEN TryTypePatterns(Tail(l), s, summary_regex)
         ELSE IF Head(l).event_type.unnumbered
         THEN Ok(Extracted(NoNum, Head(l).event_type.type))
         ELSE IF m.ngroups = 0 THEN Ok(Extracted(NoNum, Head(l).event_type.type))
         ELSE With(IntOfGroup(m), LAMBDA n :
              IF n.exc = "none" THEN Ok(Extracted(Num(n.val), Head(l).event_type.type))
              ELSE IF n.exc \in {"ValueError", "IndexError"}
              THEN TryTypePatterns(Tail(l), s, summary_regex)
              ELSE n))

\* cr is <<>> or <<rule set>>
extract_number_and_kind(summary, cr) ==
    LET s == OrEmpty(summary)
    IN  IF cr = NoRules THEN Ok(TryLegacy(LegacyPatterns(NoRegex), s))
        ELSE TryTypePatterns(TypePatterns(cr[1].event_types), s, cr[1].summary_regex)

\* bool(kind) for the kind extract_number_and_kind returned
KindTruthy(kind) == kind # None /\ kind # <<>>

\* template or default: the empty string is falsy
TemplateOr(template, default) ==
    IF ~template.malformed /\ template.pieces = <<>> THEN default ELSE template

\* for et in cr.event_types: if et.type == kind: ... break
TypesOfKind(event_types, kind) == {i \in DOMAIN event_types : event_types[i].type = kind}

FirstTypeOfKind(event_types, kind) == event_types[Leftmost(TypesOfKind(event_types, kind))]

LegacyBucket(cr, kind) ==
    IF kind = LectureText THEN cr.lectures
    ELSE IF kind = LabText THEN cr.labs
    ELSE IF kind = ExerciseText THEN cr.exercises
    ELSE <<>>

\* x or None for a str
OrNone(text) == IF text = <<>> THEN JNull ELSE JStr(text)

\* (x or "").strip() for a JSON value: strip exists on str only
OrEmptyStripped(v) ==
    IF ~Truthy(v) THEN Ok(<<>>)
    ELSE IF v.t # "str" THEN Raise("AttributeError")
    ELSE Ok(Strip(v.s))

\* "\n\n".join(parts)
RECURSIVE JoinParts(_)
JoinParts(parts) ==
    IF parts = <<>> THEN <<>>
    ELSE IF Len(parts) = 1 THEN Head(parts)
    ELSE Head(parts) \o <<"\n","\n">> \o JoinParts(Tail(parts))

CanvasLabel == <<"C","a","n","v","a","s",":"," ">>

Rewritten(summary, description) == [summary |-> summary, description |-> description]

\* the title, module and metadata resolved for (n, kind): rewrite.py:143-180
ResolveMetadata(cr, n, kind) ==
    LET typed == cr.event_types # <<>> /\ KindTruthy(kind)
                 /\ TypesOfKind(cr.event_types, kind) # {}
        event_type == FirstTypeOfKind(cr.event_types, kind)
        found == typed /\ DictHas(event_type.items, n)
        item  == DictGet(event_type.items, n)
        metadata == IF found THEN item.metadata ELSE NoMetadata
        bucket == LegacyBucket(cr, kind)
        legacy == metadata = NoMetadata /\ n # NoNum /\ kind # None
                  /\ DictHas(bucket, n[1])
        info  == DictGet(bucket, n[1])
    IN  IF legacy
        THEN [title |-> OrNone(Strip(info.title)), module |-> OrNone(Strip(info.module))]
        ELSE IF found
        THEN [title |-> ItemGet(item, "title"), module |-> ItemGet(item, "module")]
        ELSE [title |-> JNull, module |-> JNull]

\* a bug: the display name of the event type is ignored
KindPrefix_no_display_name(cr, kind) == JStr(Capitalize(OrEmpty(kind)))

\* the display name substituted for {kind}: rewrite.py:187-195
KindPrefix(cr, kind) ==
    IF KindTruthy(kind) /\ cr.event_types # <<>>
    THEN IF TypesOfKind(cr.event_types, kind) # {}
         THEN FirstTypeOfKind(cr.event_types, kind).display_name
         ELSE JStr(Capitalize(kind))
    ELSE JStr(IF kind = LectureText THEN Capitalize(LectureText)
              ELSE IF kind = LabText THEN Capitalize(LabText)
              ELSE Capitalize(ExerciseText))

\* a bug: the original description is kept after the synthesized parts
\* instead of being replaced by the rendered template
NewDescription_appends(cr, description, module) ==
    LET old_desc == Strip(OrEmpty(description))
        parts    == (IF Truthy(module) THEN <<PyStr(module)>> ELSE <<>>)
                    \o (IF cr.canvas # None THEN <<CanvasLabel \o cr.canvas>> ELSE <<>>)
                    \o (IF old_desc # <<>> THEN <<old_desc>> ELSE <<>>)
    IN  IF Truthy(module) /\ module.t # "str" THEN Raise("TypeError")
        ELSE Ok(Strip(JoinParts(parts)))

\* the DESCRIPTION part: rewrite.py:199-216
NewDescription(cr, description, module) ==
    LET old_desc == Strip(OrEmpty(description))
        canvas   == Strip(OrEmpty(cr.canvas))
        parts    == (IF Truthy(module) THEN <<PyStr(module)>> ELSE <<>>)
                    \o (IF cr.canvas # None THEN <<CanvasLabel \o cr.canvas>> ELSE <<>>)
    IN  IF old_desc # <<>>
        THEN Try(OrEmptyStripped(module), LAMBDA mod :
             Try(Format(TemplateOr(cr.description_template, DefaultDescriptionTemplate),
                        [module |-> JStr(mod), canvas |-> JStr(canvas),
                         old_desc |-> JStr(old_desc)]),
                 LAMBDA r : Ok(Strip(r))))
        ELSE IF Truthy(module) /\ module.t # "str" THEN Raise("TypeError")   \* str.join
        ELSE Ok(Strip(JoinParts(parts)))

\* the SUMMARY part: rewrite.py:182-197
NewSummary(cr, summary, course, n, kind, title) ==
    IF Truthy(title) /\ n # NoNum
    THEN Format(TemplateOr(cr.title_template, DefaultTitleTemplate),
                [kind |-> KindPrefix(cr, kind), n |-> JInt(n[1]),
                 title |-> title, course |-> JStr(course)])
    ELSE Ok(summary)

\* rewrite.py:143-216: the rewrite for the (n, kind) extracted
RewriteExtracted(summary, description, course, cr, n, kind) ==
    With(ResolveMetadata(cr, n, kind), LAMBDA meta :
    Try(NewSummary(cr, summary, course, n, kind, meta.title), LAMBDA new_summary :
    Try(NewDescription(cr, description, meta.module), LAMBDA new_desc :
        Ok(Rewritten(new_summary, new_desc)))))

\* rewrite.py:142-216: the rewrite once the rule set applies
RewriteWithRules(summary, description, course, cr) ==
    Try(extract_number_and_kind(summary, cr), LAMBDA ex :
        RewriteExtracted(summary, description, course, cr[1], ex.n, ex.kind))

\* a bug: require_course_in_summary is not consulted
rewrite_event_ungated(summary, description, course, cr) ==
    IF cr = NoRules THEN Ok(Rewritten(summary, OrEmpty(description)))
    ELSE RewriteWithRules(summary, description, course, cr)

\* cr is <<>> or <<rule set>>
rewrite_event(summary, description, course, cr) ==
    IF cr = NoRules THEN Ok(Rewritten(summary, OrEmpty(description)))
    ELSE IF /\ cr[1].require_course_in_summary
            /\ ~Contains(OrEmpty(summary), <<"(">> \o course \o <<")">>)
    THEN Ok(Rewritten(summary, OrEmpty(description)))
    ELSE RewriteWithRules(summary, description, course, cr)

-----------------------------------------------------------------------------
(* Splitter: split.py split_and_write and tokens.py ensure_token.  A dict   *)
(* keyed by course (rules_by_course, token_map, buckets) is a sequence of   *)
(* entries with distinct .course, in insertion order.                       *)

ByCourse(d, course) == {i \in DOMAIN d : d[i].course = course}

\* course in d
HasCourse(d, course) == ByCourse(d, course) # {}

\* d[course], for a key the dict holds
AtCourse(d, course) == d[CHOOSE i \in DOMAIN d : d[i].course = course]

\* d[course] = entry
PutCourse(d, entry) ==
    IF HasCourse(d, entry.course)
    THEN [i \in DOMAIN d |-> IF d[i].course = entry.course THEN entry ELSE d[i]]
    ELSE Append(d, entry)

\* rules_by_course.get(course)
RulesFor(rules, course) == IF HasCourse(rules, course) THEN <<AtCourse(rules, course)>> ELSE NoRules

\* what TOKEN_MAP_PATH holds: a JSON object of course -> token, or anything
\* else (no file, no JSON, JSON that is not an object)
TokenFile(map) == [t |-> "dict", d |-> map]

NoTokenFile == [t |-> "other"]

\* tokens.py load_token_map
load_token_map(file) == IF file.t = "dict" THEN file.d ELSE <<>>

\* tokens.py save_token_map: the file then holds the mapping
save_token_map(mapping) == TokenFile(mapping)

\* a bug: a new token is drawn whatever the map holds
ensure_token_always_new(map, course, new_tok) ==
    [token |-> new_tok, token_map |-> PutCourse(map, [course |-> course, token |-> new_tok])]

\* tokens.py ensure_token: the token the map holds when it holds a non-empty
\* one, else new_tok (uuid4().hex[:16]), stored in the map
ensure_token(map, course, new_tok) ==
    IF HasCourse(map, course) /\ AtCourse(map, course).token # <<>>
    THEN [token |-> AtCourse(map, course).token, token_map |-> map]
    ELSE [token |-> new_tok, token_map |-> PutCourse(map, [course |-> course, token |-> new_tok])]

\* the code point order of the characters a course code holds
CodePoints == <<"-">> \o DigitSeq \o UpperSeq \o LowerSeq

CodePoint(c) == CHOOSE i \in DOMAIN CodePoints : CodePoints[i] = c

\* a < b for two str
RECURSIVE TextLess(_, _)
TextLess(a, b) ==
    IF b = <<>> THEN FALSE
    ELSE IF a = <<>> THEN TRUE
    ELSE IF Head(a) = Head(b) THEN TextLess(Tail(a), Tail(b))
    ELSE CodePoint(Head(a)) < CodePoint(Head(b))

RECURSIVE InsertByCourse(_, _)
InsertByCourse(sorted, x) ==
    IF sorted = <<>> THEN <<x>>
    ELSE IF TextLess(Head(sorted).course, x.course)
    THEN <<Head(sorted)>> \o InsertByCourse(Tail(sorted), x)
    ELSE <<x>> \o sorted

\* sorted(buckets.items())
RECURSIVE SortedByCourse(_)
SortedByCourse(d) ==
    IF d = <<>> THEN <<>>
    ELSE InsertByCourse(SortedByCourse(Tail(d)), Head(d))

\* f"{course}--{tok}.ics"
FeedName(course, tok) == course \o <<"-","-">> \o tok \o <<".","i","c","s">>

\* the number of parameters of rewrite_event (rewrite.py:121)
RewriteEventParams == 4

\* a call of rewrite_event with the positional arguments argv
CallRewriteEvent(argv) ==
    IF Len(argv) # RewriteEventParams THEN Raise("TypeError")
    ELSE rewrite_event(argv[1], argv[2], argv[3], argv[4])

Decision(skip, n, kind) == [skip |-> skip, n |-> n, kind |-> kind]

\* the loop over the items of an unnumbered event: the first item with match
\* strategies that matches gives its number (split.py:85-91)
RECURSIVE FirstMatchingItem(_, _, _)
FirstMatchingItem(items, comp, kind) ==
    IF items = <<>> THEN Ok(Decision(TRUE, NoNum, kind))
    ELSE IF Head(items).match_strategies = <<>> THEN FirstMatchingItem(Tail(items), comp, kind)
    ELSE Try(matches_item(Head(items), comp.summary, comp.description,
                          comp.location, comp.start_dt),
             LAMBDA m : IF m THEN Ok(Decision(FALSE, Head(items).number, kind))
                        ELSE FirstMatchingItem(Tail(items), comp, kind))

\* event filtering (split.py:59-97): should_skip and the n, kind passed on
\* split.py:74-96: the items of the event type found for kind
FilterByItems(items, comp, n, kind) ==
    IF items = <<>> THEN Ok(Decision(FALSE, n, kind))
    ELSE IF n # NoNum
    THEN IF ~DictHas(items, n) \/ DictGet(items, n).match_strategies = <<>>
         THEN Ok(Decision(FALSE, n, kind))
         ELSE Try(matches_item(DictGet(items, n), comp.summary, comp.description,
                               comp.location, comp.start_dt),
                  LAMBDA m : Ok(Decision(~m, n, kind)))
    ELSE IF \A i \in DOMAIN items : items[i].match_strategies = <<>>
    THEN Ok(Decision(FALSE, n, kind))
    ELSE FirstMatchingItem(items, comp, kind)

\* split.py:66-96: the event type found for the kind extracted
FilterExtracted(cr, comp, n, kind) ==
    IF ~KindTruthy(kind) \/ TypesOfKind(cr.event_types, kind) = {}
    THEN Ok(Decision(FALSE, n, kind))
    ELSE FilterByItems(FirstTypeOfKind(cr.event_types, kind).items, comp, n, kind)

FilterEvent(cr, comp) ==
    IF cr = NoRules \/ cr[1].event_types = <<>> THEN Ok(Decision(FALSE, NoNum, None))
    ELSE Try(extract_number_and_kind(comp.summary, cr), LAMBDA ex :
             FilterExtracted(cr[1], comp, ex.n, ex.kind))

\* one pass of the loop body for a VEVENT (split.py:32-109): the outcome is
\* "nocourse", "filtered", "kept" with the rewritten event, or an exception
Outcome(outcome, course) == [outcome |-> outcome, course |-> course]

\* split.py:103-109: the event that passed the filter is rewritten
KeepEvent(comp, course, cr, n, kind) ==
    With(CallRewriteEvent(<<comp.summary, comp.description, course, cr, n, kind>>),
         LAMBDA r : IF r.exc # "none" THEN Outcome(r.exc, course)
                    ELSE [outcome |-> "kept", course |-> course, event |-> r.val])

\* split.py:47-109: the event of a detected course
ProcessDetected(comp, course, cr) ==
    With(FilterEvent(cr, comp), LAMBDA f :
         IF f.exc # "none" THEN Outcome(f.exc, course)
         ELSE IF f.val.skip THEN Outcome("filtered", course)
         ELSE KeepEvent(comp, course, cr, f.val.n, f.val.kind))

ProcessComponent(comp, rules) ==
    With(detect_course_code(comp.summary, comp.description), LAMBDA course :
         IF course = None \/ course = <<>> THEN Outcome("nocourse", course)
         ELSE ProcessDetected(comp, course, RulesFor(rules, course)))

-----------------------------------------------------------------------------
(* Upstream fetch: fetch.py.  The upstream is [exists, data, etag,          *)
(* last_modified]: the local file or what the server holds, with the entity *)
(* tag (None when the server sends none) and the Last-Modified time (an     *)
(* Optional[int], whole seconds) the server sends for it.  The state is the *)
(* JSON object of state_path without 'updated_at', which nothing reads.     *)

\* state.get(key) gives None for a key the object lacks
NoState == [mode |-> "absent", sha256 |-> None, etag |-> None, last_modified |-> NoNum]

StateFile(state) == [t |-> "dict", d |-> state]

NoStateFile == [t |-> "other"]

\* fetch.py _read_state: no file, no JSON or JSON that is not an object give {}
_read_state(file) == IF file.t = "dict" THEN file.d ELSE NoState

\* the hex digest: equal digests for equal contents only
_sha256_bytes(b) == <<"#">> \o b

Fetched(r, status, file) == [result |-> r, status |-> status, state_file |-> file]

\* a bug: the digest is never recorded
fetch_local_forgetful(state, file, src) ==
    IF ~src.exists THEN Fetched(None, "missing", file)
    ELSE IF state.mode = "local" /\ state.sha256 = _sha256_bytes(src.data)
    THEN Fetched(None, "local", file)
    ELSE Fetched(src.data, "local", file)

\* fetch.py:47-58: local mode; file is what state_path holds
fetch_local(state, file, src) ==
    IF ~src.exists THEN Fetched(None, "missing", file)
    ELSE IF state.mode = "local" /\ state.sha256 = _sha256_bytes(src.data)
    THEN Fetched(None, "local", file)
    ELSE Fetched(src.data, "local",
                 StateFile([NoState EXCEPT !.mode = "local",
                                           !.sha256 = _sha256_bytes(src.data)]))

\* what a server answers to the GET of fetch.py:76-83: 304 to a validator
\* that matches what it holds, else 200 with the body
GetStatus(state, src) ==
    IF state.etag # None /\ state.etag # <<>>
    THEN IF src.etag = state.etag THEN "304" ELSE "200"
    ELSE IF state.last_modified # NoNum
    THEN IF src.last_modified # NoNum /\ src.last_modified[1] <= state.last_modified[1]
         THEN "304" ELSE "200"
    ELSE "200"

\* a bug: the validators are refreshed when the content hash is unchanged
fetch_http_refreshes(state, file, src, head_ok, get_ok) ==
    IF ~get_ok THEN Fetched(None, "failed", file)
    ELSE IF ~src.exists THEN Fetched(None, "404", file)
    ELSE IF GetStatus(state, src) = "304" THEN Fetched(None, "304", file)
    ELSE IF src.data = <<>> THEN Fetched(None, "200", file)
    ELSE IF state.mode = "http" /\ state.sha256 = _sha256_bytes(src.data)
    THEN Fetched(None, "200",
                 StateFile([state EXCEPT !.etag = src.etag,
                                         !.last_modified = src.last_modified]))
    ELSE LET etag_curr == IF head_ok THEN src.etag ELSE None
             lm_curr   == IF head_ok THEN src.last_modified ELSE NoNum
             etag_used == IF etag_curr \notin {None, <<>>} THEN etag_curr ELSE src.etag
             lm_used   == IF lm_curr # NoNum THEN lm_curr ELSE src.last_modified
         IN  Fetched(src.data, "200",
                     StateFile([mode |-> "http", sha256 |-> _sha256_bytes(src.data),
                                etag |-> IF etag_used = <<>> THEN None ELSE etag_used,
                                last_modified |-> lm_used]))

\* fetch.py:61-113: HTTP mode; the HEAD and the GET see the same upstream;
\* head_ok: the HEAD succeeded; get_ok: the GET succeeded
fetch_http(state, file, src, head_ok, get_ok) ==
    IF ~get_ok THEN Fetched(None, "failed", file)
    ELSE IF ~src.exists THEN Fetched(None, "404", file)
    ELSE IF GetStatus(state, src) = "304" THEN Fetched(None, "304", file)
    ELSE IF src.data = <<>> THEN Fetched(None, "200", file)
    ELSE IF state.mode = "http" /\ state.sha256 = _sha256_bytes(src.data)
    THEN Fetched(None, "200", file)
    ELSE LET etag_curr == IF head_ok THEN src.etag ELSE None
             lm_curr   == IF head_ok THEN src.last_modified ELSE NoNum
             etag_used == IF etag_curr \notin {None, <<>>} THEN etag_curr ELSE src.etag
             lm_used   == IF lm_curr # NoNum THEN lm_curr ELSE src.last_modified
         IN  Fetched(src.data, "200",
                     StateFile([mode |-> "http", sha256 |-> _sha256_bytes(src.data),
                                etag |-> IF etag_used = <<>> THEN None ELSE etag_used,
                                last_modified |-> lm_used]))

fetch_upstream_if_changed(source_url, file, src, head_ok, get_ok) ==
    IF Strip(OrEmpty(source_url)) = <<>>
    THEN fetch_local(_read_state(file), file, src)
    ELSE fetch_http(_read_state(file), file, src, head_ok, get_ok)

-----------------------------------------------------------------------------
(* Input construction shared by the specifications *)

RECURSIVE Flatten(_)
Flatten(ss) == IF ss = <<>> THEN <<>> ELSE Head(ss) \o Flatten(Tail(ss))

\* the texts made by concatenating at most n pieces drawn from T
Texts(T, n) == {Flatten(ss) : ss \in UNION {[1..k -> T] : k \in 0..n}}

\* the files and the upstream are not part of a specification that studies
\* one call or one run of split_and_write
EnvIdle ==
    token_file = <<>> /\ runs = 0 /\ state_file = <<>> /\ source = <<>> /\ fetched = <<>>

\* the run of split_and_write is not part of a specification that studies one call
ProcIdle ==
    /\ pc = "idle" /\ upstream = <<>> /\ pos = 0 /\ rules_by_course = <<>> /\ token_map = <<>>
    /\ buckets = <<>> /\ total = 0 /\ kept = 0 /\ filtered = 0
    /\ feeds = {} /\ written = 0 /\ raised = "none"
    /\ EnvIdle

CallInit(A) == phase = "call" /\ args \in A /\ result = Ok(None) /\ ProcIdle

Return(r) == phase = "call" /\ phase' = "return" /\ result' = r /\ UNCHANGED args
             /\ UNCHANGED procvars

-----------------------------------------------------------------------------
(* Specification of the course detector *)

MaxDetectPieces == 3

DetectPieces ==
    { <<"I","S","1","2","0","0">>, <<"I","s","1","2","0","0">>,
      <<"(","C","S","1","0","1",")">>, <<"(","c","s","1","0","1",")">>,
      <<"(","2","0","2","4",")">>, <<"(","P","D","F",")">>, <<"X">>, <<"7">>, <<" ">>,
      <<"(","I","S","1","2","0","0","H","T",")">> }

DetectDescriptions ==
    { None,
      <<"x","/","c","o","u","r","s","e","/","I","S","-","1","2","0","0","/","e","/">>,
      <<"/","c","o","u","r","s","e","/","i","s","1","2","0","0","/">>,
      <<"/","c","o","u","r","s","e","/","A","B","1","/">> }

DetectArgs ==
    [op : {"detect_course_code"},
     summary : Texts(DetectPieces, MaxDetectPieces) \cup {None},
     description : DetectDescriptions]

DetectInit == CallInit(DetectArgs)

DetectCall == Return(Ok(detect_course_code(args.summary, args.description)))

DetectNext == DetectCall

SpecDetect == DetectInit /\ [][DetectNext]_vars

\* The three sources as the specification words them
IsKthCode(t) ==
    Len(t) = 6 /\ IsUpper(t[1]) /\ IsUpper(t[2]) /\ \A k \in 3..6 : IsDigit(t[k])

KthWordIn(s, t) ==
    /\ IsKthCode(t)
    /\ \E i \in 1..Len(s) :
          /\ OccursAt(s, t, i)
          /\ (i = 1 \/ ~IsWord(s[i - 1]))
          /\ (i + 6 > Len(s) \/ ~IsWord(s[i + 6]))

IsParenCode(t) ==
    /\ Len(t) >= 3 /\ IsUpper(t[1]) /\ IsUpper(t[2])
    /\ \A k \in 1..Len(t) : IsUpper(t[k]) \/ IsDigit(t[k])
    /\ \E k \in 1..Len(t) : IsDigit(t[k])

ParenCodeIn(s, t) == IsParenCode(t) /\ Contains(s, <<"(">> \o t \o <<")">>)

IsUrlCode(t) ==
    Len(t) >= 4 /\ \A k \in 1..Len(t) : IsUpper(t[k]) \/ IsDigit(t[k]) \/ t[k] = "-"

UrlCodeIn(d, t) == IsUrlCode(t) /\ Contains(d, CoursePath \o t \o <<"/">>)

Slices(s) == {Slice(s, i, j) : i \in 1..Len(s), j \in 1..Len(s)}

\* C8: detect_course_code returns a KTH-style identifier of the summary when
\* the summary holds one (even when a parenthesized identifier comes first),
\* else a parenthesized identifier of the summary, else the code of a
\* /course/<code>/ fragment of the description, else None; a summary without
\* an uppercase letter contributes nothing.
C8_DetectPriority ==
    (phase = "return" /\ args.op = "detect_course_code") =>
        LET s == OrEmpty(args.summary)
            d == OrEmpty(args.description)
            r == result.val
        IN  /\ result.exc = "none"
            /\ IF \E t \in Slices(s) : KthWordIn(s, t) THEN KthWordIn(s, r)
               ELSE IF \E t \in Slices(s) : ParenCodeIn(s, t) THEN ParenCodeIn(s, r)
               ELSE IF \E t \in Slices(d) : UrlCodeIn(d, t) THEN UrlCodeIn(d, r)
               ELSE r = None
            /\ (\A i \in 1..Len(s) : ~IsUpper(s[i])) =>
                   (r = None \/ UrlCodeIn(d, r))

\* a parenthesized identifier precedes a KTH-style one, and the KTH-style one is returned
C8_Witness ==
    /\ phase = "return" /\ args.op = "detect_course_code"
    /\ args.summary = <<"(","C","S","1","0","1",")"," ","I","S","1","2","0","0">>
    /\ result.val = <<"I","S","1","2","0","0">>

-----------------------------------------------------------------------------
(* Specification of the schema loader: detect_schema, from_json and         *)
(* load_course_rules_dir applied to small rule documents                    *)

EmptyDoc ==
    [schema_version |-> Absent, course |-> Absent, course_code |-> Absent,
     canvas |-> Absent, canvas_url |-> Absent, match |-> Absent,
     title_template |-> Absent, description_template |-> Absent,
     items |-> Absent, lectures |-> Absent, labs |-> Absent, exercises |-> Absent,
     event_types |-> Absent]

IS1200 == <<"I","S","1","2","0","0">>

IX1303 == <<"I","X","1","3","0","3">>

SchemaMarkers ==
    { Absent, JNull, JInt(1), JStr(<<"A">>), JStr(<<"a">>), JStr(<<"1">>),
      JStr(<<"B">>), JStr(<<"b">>), JStr(<<"2">>), JStr(<<"C">>) }

SchemaDocs ==
    { [EmptyDoc EXCEPT !.schema_version = v, !.course = c, !.course_code = cc, !.match = m] :
        v \in SchemaMarkers,
        c \in {Absent, JStr(IS1200), JStr(<<>>)},
        cc \in {Absent, JStr(IX1303), JStr(<<>>), JStr(<<" ">>)},
        m \in {Absent, JStr(<<"x">>)} }

MaxFiles == 3

\* the files of a rules directory: unparseable text, a JSON list, and documents
\* that load or fail to load; two of them declare the same course
DirFiles ==
    { [t |-> "garbage"], JList(<<>>),
      JDict([EmptyDoc EXCEPT !.course = JStr(IS1200)]),
      JDict([EmptyDoc EXCEPT !.course = JStr(IS1200),
                             !.canvas = JStr(<<"h","t","t","p",":","/","/","c">>)]),
      JDict([EmptyDoc EXCEPT !.course_code = JStr(IX1303)]),
      JDict([EmptyDoc EXCEPT !.course_code = JStr(<<>>)]),
      JDict([EmptyDoc EXCEPT !.schema_version = JStr(<<"A">>), !.course_code = JStr(IX1303)]) }

RulesArgs ==
    [op : {"detect_schema", "from_json"}, data : SchemaDocs]
    \cup [op : {"load_course_rules_dir"},
          files : UNION {[1..k -> DirFiles] : k \in 0..MaxFiles}]

RulesInit == CallInit(RulesArgs)

DetectSchemaCall == args.op = "detect_schema" /\ Return(detect_schema(args.data))

FromJsonCall == args.op = "from_json" /\ Return(from_json(args.data))

LoadDirCall == args.op = "load_course_rules_dir" /\ Return(load_course_rules_dir(args.files))

RulesNext == DetectSchemaCall \/ FromJsonCall \/ LoadDirCall

SpecRules == RulesInit /\ [][RulesNext]_vars

Returned(op) == phase = "return" /\ args.op = op

\* C7: detect_schema maps the markers "A", "a", "1" to A and "B", "b", "2" to
\* B; with the marker absent or unrecognized it infers A from 'course' alone,
\* B from 'course_code' alone, A from both, and raises with neither.
C7_DetectSchema ==
    Returned("detect_schema") =>
        LET v  == args.data.schema_version
            c  == args.data.course # Absent
            cc == args.data.course_code # Absent
        IN  IF v \in {JStr(<<"A">>), JStr(<<"a">>), JStr(<<"1">>)} THEN result = Ok("A")
            ELSE IF v \in {JStr(<<"B">>), JStr(<<"b">>), JStr(<<"2">>)} THEN result = Ok("B")
            ELSE /\ (c /\ ~cc) => result = Ok("A")
                 /\ (cc /\ ~c) => result = Ok("B")
                 /\ (c /\ cc) => result = Ok("A")
                 /\ (~c /\ ~cc) => result.exc = "ValueError"

\* both identifiers present and an unrecognized marker: shape A is preferred
C7_Witness ==
    /\ Returned("detect_schema")
    /\ args.data.schema_version = JStr(<<"C">>)
    /\ args.data.course # Absent /\ args.data.course_code # Absent
    /\ result = Ok("A")

\* the document has no course identifier, or course_code is the identifier in
\* use (the document resolves to Schema B) and its value is empty
NoCourseIdentifier(data) ==
    \/ data.course = Absent /\ data.course_code = Absent
    \/ /\ detect_schema(data) = Ok("B")
       /\ data.course_code.t = "str" /\ Strip(data.course_code.s) = <<>>

\* C6: from_json fails with the schema error (ValueError) for every document
\* without a course identifier, whatever its schema_version marker.
C6_SchemaError ==
    (Returned("from_json") /\ NoCourseIdentifier(args.data)) => result.exc = "ValueError"

Loadable(file) == LoadFile(file).exc = "none"

CourseOf(file) == LoadFile(file).val.course

\* C5 as stated: load_course_rules_dir never raises, and a document that
\* cannot be loaded lowers the number of loaded rule sets by exactly one: with
\* any loadable document in its place the directory yields one rule set more.
C5_CountDropsByOne ==
    Returned("load_course_rules_dir") =>
        /\ result.exc = "none"
        /\ \A i \in DOMAIN args.files :
              ~Loadable(args.files[i]) =>
                  \A g \in DirFiles :
                      Loadable(g) =>
                          Len(LoadFiles([args.files EXCEPT ![i] = g], <<>>))
                              = Len(result.val) + 1

\* C5 (amended): load_course_rules_dir never raises; the result holds exactly
\* one rule set per course code declared by a loadable document, namely the
\* rule set of the last such document in name order, so a document that cannot
\* be loaded is excluded and the number of rule sets is the number of distinct
\* course codes among the loadable documents.
C5_LoadDirectory ==
    Returned("load_course_rules_dir") =>
        LET files == args.files
            good  == {i \in DOMAIN files : Loadable(files[i])}
            rules == result.val
        IN  /\ result.exc = "none"
            /\ {rules[j].course : j \in DOMAIN rules} = {CourseOf(files[i]) : i \in good}
            /\ Len(rules) = Cardinality({CourseOf(files[i]) : i \in good})
            /\ \A j \in DOMAIN rules :
                  \E i \in good :
                      /\ rules[j] = LoadFile(files[i]).val
                      /\ \A k \in good : k > i => CourseOf(files[k]) # rules[j].course

\* a directory with a document that cannot be loaded and two that can
C5_Witness ==
    /\ Returned("load_course_rules_dir")
    /\ \E i \in DOMAIN args.files : ~Loadable(args.files[i])
    /\ result.exc = "none" /\ Len(result.val) = 2

-----------------------------------------------------------------------------
(* Specification of the match engine: matches_strategy applied to           *)
(* well-formed and malformed strategies                                     *)

NoSpec == [strategy |-> "", priority |-> Absent, timeslot |-> Absent, pattern |-> Absent,
           location |-> Absent, strategies |-> Absent]

TimeSpec(timeslot) == JDict([NoSpec EXCEPT !.strategy = "time", !.timeslot = timeslot])

PatternSpec(kind, pattern) == JDict([NoSpec EXCEPT !.strategy = kind, !.pattern = pattern])

LocationSpec(location) == JDict([NoSpec EXCEPT !.strategy = "location", !.location = location])

CompositeSpec(kind, strategies) ==
    JDict([NoSpec EXCEPT !.strategy = kind, !.strategies = strategies])

GroupA == JPattern(Regex("plain", <<"G","r","o","u","p"," ","A">>))

Q17 == JStr(<<"Q","1","7">>)

Timeslots ==
    { Absent, JNull, JInt(5), JList(<<>>), JStr(<<"F","r","i"," ","1","3","-","1","5">>) }
    \cup { JDict([day |-> d, start_time |-> st, end_time |-> et]) :
             d  \in {Absent, JStr(<<"F","r","i","d","a","y">>), JInt(4),
                     JStr(<<"n","o","d","a","y">>)},
             st \in {Absent, JStr(<<"1","3",":","0","0">>), JStr(<<"1","3","0","0">>),
                     JStr(<<"a","b",":","c","d">>), JInt(1300)},
             et \in {Absent, JStr(<<"1","5",":","0","0">>), JStr(<<"1","5">>)} }

LeafSpecs ==
    { PatternSpec("description", GroupA), PatternSpec("description", JPattern(BadRegex)),
      PatternSpec("description", Absent), PatternSpec("description", JInt(5)),
      PatternSpec("url", GroupA), PatternSpec("url", JPattern(BadRegex)),
      LocationSpec(Q17), LocationSpec(Absent), LocationSpec(JInt(5)),
      PatternSpec("room", GroupA) }

\* what a 'strategies' list may hold: strategy specs, one of them composite,
\* and an entry that is not a mapping
SubSpecs ==
    { PatternSpec("description", GroupA), LocationSpec(Q17), LocationSpec(JInt(5)),
      JStr(<<"x">>),
      CompositeSpec("any", JList(<< PatternSpec("url", GroupA), LocationSpec(Q17) >>)) }

MaxSubStrategies == 2

CompositeSpecs ==
    { CompositeSpec(kind, subs) :
        kind \in {"all", "any"},
        subs \in {Absent, JNull, JStr(<<"x">>)}
                 \cup {JList(l) : l \in UNION {[1..k -> SubSpecs] : k \in 0..MaxSubStrategies}} }

\* the events a strategy is evaluated against: summary, description,
\* location, start time (Friday is weekday 4)
MatchEvents ==
    { [summary |-> <<"L","a","b"," ","1">>,
       description |-> <<"g","r","o","u","p"," ","a"," ","s","e","s","s","i","o","n">>,
       location |-> <<"R","o","o","m"," ","q","1","7">>, start_dt |-> StartAt(4, 13, 0)],
      [summary |-> <<"L","a","b"," ","1"," ","G","r","o","u","p"," ","A">>,
       description |-> None, location |-> None, start_dt |-> NoStart],
      [summary |-> <<"L","a","b"," ","1">>, description |-> <<"G","r","o","u","p"," ","B">>,
       location |-> <<"E","2">>, start_dt |-> StartAt(4, 15, 0)],
      [summary |-> None, description |-> <<>>,
       location |-> <<"Q","1","7">>, start_dt |-> StartAt(4, 12, 59)],
      [summary |-> <<>>, description |-> <<"G","r","o","u","p"," ","A">>,
       location |-> <<>>, start_dt |-> StartAt(0, 14, 59)] }

MatchArgs ==
    [op : {"matches_strategy"},
     strategy : {MatchStrategy_from_dict(d).val :
                   d \in {TimeSpec(ts) : ts \in Timeslots} \cup LeafSpecs \cup CompositeSpecs},
     event : MatchEvents]

MatchInit == CallInit(MatchArgs)

MatchesStrategyCall ==
    /\ args.op = "matches_strategy"
    /\ Return(matches_strategy(args.strategy, args.event.summary, args.event.description,
                               args.event.location, args.event.start_dt))

MatchNext == MatchesStrategyCall

SpecMatch == MatchInit /\ [][MatchNext]_vars

\* C2: matches_strategy returns a boolean and never raises, for every
\* strategy and every event.
C2_NeverRaises ==
    Returned("matches_strategy") => (result.exc = "none" /\ result.val \in BOOLEAN)

\* the minutes since midnight that "HH:MM" or "HHMM" names
IsClock(v) ==
    /\ v.t = "str"
    /\ LET t == SelectSeq(v.s, LAMBDA c : c # ":")
       IN  /\ Len(t) = 4 /\ \A i \in 1..4 : IsDigit(t[i])
           /\ Len(v.s) = 4 \/ (Len(v.s) = 5 /\ v.s[3] = ":")

ClockMinutes(v) ==
    LET t == SelectSeq(v.s, LAMBDA c : c # ":")
    IN  (DigitVal(t[1]) * 10 + DigitVal(t[2])) * 60 + DigitVal(t[3]) * 10 + DigitVal(t[4])

\* the weekday (Monday = 0) a configured day names
IsWeekday(day, weekday) ==
    \/ day.t = "int" /\ day.n = weekday
    \/ day.t = "str" /\ weekday + 1 \in DOMAIN DayNames /\ Lower(day.s) = DayNames[weekday + 1]

\* what the time rule says of a timeslot read as a mapping
TimeslotAdmits(timeslot, start_dt) ==
    /\ timeslot.day.t = "absent" \/ IsWeekday(timeslot.day, start_dt.weekday)
    /\ \/ timeslot.start_time.t = "absent" \/ timeslot.end_time.t = "absent"
       \/ ~IsClock(timeslot.start_time) \/ ~IsClock(timeslot.end_time)
       \/ /\ ClockMinutes(timeslot.start_time) <= start_dt.hour * 60 + start_dt.minute
          /\ start_dt.hour * 60 + start_dt.minute < ClockMinutes(timeslot.end_time)

TimeslotRefuses(timeslot, start_dt) ==
    \/ timeslot.day.t # "absent" /\ ~IsWeekday(timeslot.day, start_dt.weekday)
    \/ /\ timeslot.start_time.t # "absent" /\ timeslot.end_time.t # "absent"
       /\ IsClock(timeslot.start_time) /\ IsClock(timeslot.end_time)
       /\ ~ /\ ClockMinutes(timeslot.start_time) <= start_dt.hour * 60 + start_dt.minute
            /\ start_dt.hour * 60 + start_dt.minute < ClockMinutes(timeslot.end_time)

\* C11: a 'time' strategy gives false when the start time is absent or the
\* timeslot is a bare string; otherwise it gives a boolean, true iff the
\* configured day (a name in any case, or an index, Monday = 0) is the
\* weekday of the start time or no day is configured, and start_time and
\* end_time are not both configured or
\* rangeStart <= hour*60+minute < rangeEnd (where both bounds read as clock
\* times).
C11_TimeStrategy ==
    (Returned("matches_strategy") /\ args.strategy.strategy = "time") =>
        LET raw      == args.strategy.data.timeslot
            timeslot == IF raw.t = "dict" THEN raw.d ELSE NoTimeslot
            start_dt == args.event.start_dt
        IN  /\ result.exc = "none" /\ result.val \in BOOLEAN
            /\ (start_dt.t = "none" \/ raw.t = "str") => result.val = FALSE
            /\ (start_dt.t # "none" /\ raw.t # "str") =>
                  /\ TimeslotRefuses(timeslot, start_dt) => result.val = FALSE
                  /\ TimeslotAdmits(timeslot, start_dt) => result.val = TRUE

\* the nested strategies of a composite whose 'strategies' is a list (or absent)
ListsStrategies(strategy) ==
    strategy.strategy \in {"all", "any"} /\ strategy.data.strategies.t \in {"absent", "list"}

NestedSpecs(strategy) ==
    IF strategy.data.strategies.t = "list" THEN strategy.data.strategies.l ELSE <<>>

\* the nested entry is a strategy and the event matches it
NestedMatches(sub, event) ==
    /\ sub.t = "dict"
    /\ matches_strategy(MatchStrategy_from_dict(sub).val, event.summary, event.description,
                        event.location, event.start_dt) = Ok(TRUE)

\* what the composite rule says of the outcome r of a composite strategy
CompositeLaw(strategy, event, r) ==
    LET subs == NestedSpecs(strategy)
    IN  r = Ok(IF strategy.strategy = "all"
               THEN \A i \in DOMAIN subs : NestedMatches(subs[i], event)
               ELSE \E i \in DOMAIN subs : NestedMatches(subs[i], event))

\* the composite strategies nested directly in a composite
NestedComposites(strategy) ==
    { MatchStrategy_from_dict(NestedSpecs(strategy)[i]).val :
        i \in {j \in DOMAIN NestedSpecs(strategy) :
                  /\ NestedSpecs(strategy)[j].t = "dict"
                  /\ ListsStrategies(MatchStrategy_from_dict(NestedSpecs(strategy)[j]).val)} }

\* C12: an 'all' strategy matches iff every nested strategy matches (an
\* empty list matches) and an 'any' strategy matches iff some nested strategy
\* matches (an empty list does not), whatever follows the nested strategy
\* that decides, at the outer level and one level down.
C12_Composite ==
    (Returned("matches_strategy") /\ ListsStrategies(args.strategy)) =>
        /\ CompositeLaw(args.strategy, args.event, result)
        /\ \A c \in NestedComposites(args.strategy) :
              CompositeLaw(c, args.event,
                           matches_strategy(c, args.event.summary, args.event.description,
                                            args.event.location, args.event.start_dt))

-----------------------------------------------------------------------------
(* Specification of the rewrite engine: rewrite_event applied to rule sets  *)
(* that from_json loads from small documents                                *)

EmptyType == [type |-> Absent, display_name |-> Absent, patterns |-> Absent,
              items |-> Absent, unnumbered |-> Absent]

EmptyItem == [number |-> Absent, match_priority |-> Absent, match |-> Absent,
              timeslot |-> Absent, group |-> Absent,
              title |-> Absent, module |-> Absent, room |-> Absent]

\* an entry of a legacy numbered list
LegacyItem(number, title, module) ==
    JDict([number |-> JInt(number), title |-> JStr(title), module |-> JStr(module)])

Intro == <<"I","n","t","r","o">>

Setup == <<"S","e","t","u","p">>

Drill == <<"D","r","i","l","l">>

Module1 == <<"M","o","d","u","l","e"," ","1">>

CanvasUrl == <<"h","t","t","p",":","/","/","c">>

\* Schema A as the tests write it: one list of lecture items
LegacyDocA ==
    [EmptyDoc EXCEPT !.course = JStr(IS1200), !.canvas = JStr(CanvasUrl),
                     !.items = JList(<< LegacyItem(1, Intro, Module1),
                                        LegacyItem(2, <<" ">>, <<>>) >>)]

\* Schema B with the three legacy lists, with and without a canvas link and
\* the course-tag gate
LegacyDocsB ==
    { [EmptyDoc EXCEPT
         !.course_code = JStr(IS1200), !.canvas_url = canvas,
         !.match = JDict([NoMatchSection EXCEPT !.require_course_in_summary = gate]),
         !.lectures = JList(<< LegacyItem(1, Intro, Module1) >>),
         !.labs = JList(<< LegacyItem(1, Setup, <<" ","M","2"," ">>) >>),
         !.exercises = JList(<< LegacyItem(2, Drill, <<>>) >>)] :
        canvas \in {Absent, JStr(CanvasUrl)}, gate \in {Absent, JBool(TRUE)} }

\* "event_types": [] next to a legacy list: nothing is migrated
UnmigratedDoc ==
    [EmptyDoc EXCEPT !.course_code = JStr(IS1200), !.event_types = JList(<<>>),
                     !.lectures = JList(<< LegacyItem(1, Intro, Module1) >>)]

\* an event type whose pattern has an optional number: Lecture(?:\s(\d+))?
OptionalNumberDoc ==
    [EmptyDoc EXCEPT
       !.course_code = JStr(IS1200),
       !.event_types = JList(<< JDict([EmptyType EXCEPT
           !.type = JStr(LectureText),
           !.patterns = JList(<< JPattern(Regex("opt_num", Capitalize(LectureText))) >>),
           !.items = JList(<< JDict([EmptyItem EXCEPT
               !.number = JInt(1), !.title = JStr(Intro), !.module = JStr(Module1)]) >>)]) >>)]

\* an event type with its own display name, a pattern Lab\s(\w+) whose group
\* need not be a number, and an item whose module is a number
LabTypeDoc ==
    [EmptyDoc EXCEPT
       !.course_code = JStr(IS1200), !.canvas_url = JStr(CanvasUrl),
       !.event_types = JList(<< JDict([EmptyType EXCEPT
           !.type = JStr(LabText),
           !.display_name = JStr(<<"L","a","b","o","r","a","t","i","o","n">>),
           !.patterns = JList(<< JPattern(Regex("word_arg", Capitalize(LabText))) >>),
           !.items = JList(<< JDict([EmptyItem EXCEPT
                                  !.number = JInt(1), !.title = JStr(Setup), !.module = JInt(3)]),
                              JDict([EmptyItem EXCEPT
                                  !.number = JInt(2), !.title = JStr(Drill),
                                  !.module = JStr(<<" ","M","2"," ">>)]) >>)]) >>)]

\* a title template that passes validate_template and cannot be rendered: {n:abc}
UnrenderableTemplateDoc ==
    [EmptyDoc EXCEPT
       !.course_code = JStr(IS1200),
       !.title_template = JTemplate(Template(<< [lit |-> <<>>, field |-> "n",
                                                  conv |-> "", spec |-> "abc"] >>)),
       !.lectures = JList(<< LegacyItem(1, Intro, Module1) >>)]

\* an unnumbered event type: its item has no number
UnnumberedDoc ==
    [EmptyDoc EXCEPT
       !.course_code = JStr(IS1200),
       !.event_types = JList(<< JDict([EmptyType EXCEPT
           !.type = JStr(<<"s","e","m","i","n","a","r">>),
           !.patterns = JPattern(Regex("plain", <<"S","e","m","i","n","a","r">>)),
           !.unnumbered = JBool(TRUE),
           !.items = JList(<< JDict([EmptyItem EXCEPT
               !.title = JStr(<<"T","h","e","s","i","s">>), !.module = JStr(Module1),
               !.group = GroupA]) >>)]) >>)]

RewriteDocs ==
    { LegacyDocA, UnmigratedDoc, OptionalNumberDoc, LabTypeDoc, UnrenderableTemplateDoc,
      UnnumberedDoc } \cup LegacyDocsB

\* the rule sets of the documents, and no rule set
RewriteRules == {NoRules} \cup {<<from_json(doc).val>> : doc \in RewriteDocs}

MaxNumber == 2

\* summaries "<kind><sep><number><rest>", the rest holding the course tag or nothing
SummaryKinds ==
    { <<>>, Capitalize(LectureText), Capitalize(LabText), LabText, Capitalize(ExerciseText),
      <<"S","e","m","i","n","a","r">> }

SummaryNumbers == { <<>>, <<"x">> } \cup { IntToText(n) : n \in 0..MaxNumber }

CourseTag(course) == <<" ","(">> \o course \o <<")">>

Summaries ==
    { kind \o sep \o number \o rest :
        kind \in SummaryKinds, sep \in {<<>>, <<" ">>}, number \in SummaryNumbers,
        rest \in {<<>>, <<" ","-"," ","x">> \o CourseTag(IS1200)} }

Notes == <<"n","o","t","e","s">>

Descriptions == { None, <<>>, <<"\t">>, Notes, <<" ">> \o Notes \o <<"\n">> }

\* every rule set with its own course, and another course with no rule set
\* or with a rule set of IS1200
RewriteArgs ==
    [op : {"rewrite_event"}, summary : Summaries \cup {None}, description : Descriptions,
     course : {IS1200}, cr : RewriteRules]
    \cup [op : {"rewrite_event"}, summary : Summaries \cup {None}, description : Descriptions,
          course : {IX1303}, cr : {NoRules} \cup {<<from_json(doc).val>> : doc \in LegacyDocsB}]

\* an event type whose first pattern, Lecture\s(\w+), can capture text that
\* is no number and whose second, Lecture, has no group, declared before a
\* second event type with the built-in lecture pattern
SkippedPatternDoc ==
    [EmptyDoc EXCEPT
       !.course_code = JStr(IS1200),
       !.event_types = JList(<<
           JDict([EmptyType EXCEPT
               !.type = JStr(<<"t","a","l","k">>),
               !.patterns = JList(<< JPattern(Regex("word_arg", Capitalize(LectureText))),
                                     JPattern(Regex("plain", Capitalize(LectureText))) >>)]),
           JDict([EmptyType EXCEPT
               !.type = JStr(LectureText),
               !.patterns = JList(<< JPattern(DEFAULT_SUMMARY_RE) >>)]) >>)]

ExtractArgs ==
    [op : {"extract_number_and_kind"}, summary : Summaries \cup {None},
     cr : RewriteRules \cup {<<from_json(SkippedPatternDoc).val>>}]

\* a declared lab type whose item 1 has a strategy and no title or module,
\* next to a legacy list that has a title for lab 1
BareItemDoc ==
    [EmptyDoc EXCEPT
       !.course_code = JStr(IS1200),
       !.event_types = JList(<< JDict([EmptyType EXCEPT
           !.type = JStr(LabText),
           !.patterns = JList(<< JPattern(RE_LAB) >>),
           !.items = JList(<< JDict([EmptyItem EXCEPT !.number = JInt(1), !.group = GroupA]),
                              JDict([EmptyItem EXCEPT !.number = JInt(2),
                                                      !.room = Q17]) >>)]) >>),
       !.labs = JList(<< LegacyItem(1, Setup, Module1), LegacyItem(2, Drill, Module1) >>)]

\* two event types of the same name with different patterns, display names
\* and items
SharedNameDoc ==
    [EmptyDoc EXCEPT
       !.course_code = JStr(IS1200),
       !.event_types = JList(<<
           JDict([EmptyType EXCEPT
               !.type = JStr(LabText),
               !.display_name = JStr(<<"D","r","i","l","l"," ","l","a","b">>),
               !.patterns = JList(<< JPattern(RE_EXERCISE) >>),
               !.items = JList(<< JDict([EmptyItem EXCEPT !.number = JInt(1),
                                                          !.title = JStr(Drill)]) >>)]),
           JDict([EmptyType EXCEPT
               !.type = JStr(LabText),
               !.patterns = JList(<< JPattern(RE_LAB) >>),
               !.items = JList(<< JDict([EmptyItem EXCEPT !.number = JInt(1),
                                                          !.title = JStr(Setup)]) >>)]) >>)]

\* an event type named lab whose pattern is Laboration\s+(\d+): 'Lab 1' gets
\* its kind from the legacy pattern
LegacyKindDoc ==
    [EmptyDoc EXCEPT
       !.course_code = JStr(IS1200),
       !.event_types = JList(<< JDict([EmptyType EXCEPT
           !.type = JStr(LabText),
           !.display_name = JStr(<<"L","a","b","o","r","a","t","i","o","n">>),
           !.patterns = JList(<< JPattern(Regex("num_plus",
                                                <<"L","a","b","o","r","a","t","i","o","n">>)) >>),
           !.items = JList(<< JDict([EmptyItem EXCEPT !.number = JInt(1),
                                                      !.title = JStr(Setup)]) >>)]) >>)]

LookupDocs == { BareItemDoc, SharedNameDoc, LegacyKindDoc, LegacyDocA, UnmigratedDoc, LabTypeDoc }

\* rule sets in which the event types and the legacy buckets or patterns
\* disagree, next to rule sets in which they agree
LookupArgs ==
    [op : {"rewrite_event"}, summary : Summaries, description : {<<>>, Notes},
     course : {IS1200}, cr : {<<from_json(doc).val>> : doc \in LookupDocs}]

RewriteInit == CallInit(RewriteArgs \cup ExtractArgs)

RewriteEventCall ==
    /\ args.op = "rewrite_event"
    /\ Return(rewrite_event(args.summary, args.description, args.course, args.cr))

ExtractCall ==
    /\ args.op = "extract_number_and_kind"
    /\ Return(extract_number_and_kind(args.summary, args.cr))

RewriteNext == RewriteEventCall \/ ExtractCall

SpecRewrite == RewriteInit /\ [][RewriteNext]_vars

\* the rewrite engine on the rule sets of LookupDocs
LookupInit == CallInit(LookupArgs)

LookupNext == RewriteEventCall

SpecLookup == LookupInit /\ [][LookupNext]_vars

\* C3: rewrite_event never raises, whatever the summary, the description, the
\* course and the loaded rule set.
C3_NeverRaises == Returned("rewrite_event") => result.exc = "none"

CourseTagMissing(summary, course) ==
    ~Contains(OrEmpty(summary), <<"(">> \o course \o <<")">>)

\* C9: rewrite_event returns the summary as given and the description as
\* given (the empty string for None) when there is no rule set for the
\* course, or the rule set requires the course tag and '(COURSE)' is not in
\* the summary.
C9_UnchangedWithoutRules ==
    ( /\ Returned("rewrite_event")
      /\ \/ args.cr = NoRules
         \/ /\ args.cr[1].require_course_in_summary
            /\ CourseTagMissing(args.summary, args.course) )
    => result = Ok(Rewritten(args.summary,
                             IF args.description = None THEN <<>> ELSE args.description))

\* the gate holds back a summary the rule set has a title for
C9_Witness ==
    /\ Returned("rewrite_event")
    /\ args.cr # NoRules /\ args.cr[1].require_course_in_summary
    /\ DictHas(args.cr[1].lectures, 1)
    /\ args.summary = <<"L","e","c","t","u","r","e"," ","1">>
    /\ args.description = <<" ">> \o Notes \o <<"\n">>
    /\ result = Ok(Rewritten(args.summary, args.description))

LegacyKinds == {LectureText, LabText, ExerciseText}

\* the summary names occurrence n of the kind: the kind's word, whitespace,
\* and the decimal number n as a whole word
NamesOccurrence(s, kind, n) ==
    \E i \in 1..Len(s) :
        LET a  == i + Len(kind)
            sp == RunOfSpace(s, a)
            dg == RunOfDigits(s, a + sp)
        IN  /\ OccursAtNoCase(s, kind, i) /\ WordBoundary(s, i)
            /\ sp >= 1 /\ dg >= 1
            /\ DigitsToInt(Slice(s, a + sp, a + sp + dg - 1)) = n
            /\ WordBoundary(s, a + sp + dg)

\* the title and module the rule set holds for occurrence n of the kind
OccurrenceOf(cr, kind, n) ==
    IF /\ TypesOfKind(cr.event_types, kind) # {}
       /\ DictHas(FirstTypeOfKind(cr.event_types, kind).items, Num(n))
    THEN LET item == DictGet(FirstTypeOfKind(cr.event_types, kind).items, Num(n))
         IN  [title |-> item.metadata.title, module |-> item.metadata.module]
    ELSE IF DictHas(LegacyBucket(cr, kind), n)
    THEN [title  |-> JStr(DictGet(LegacyBucket(cr, kind), n).title),
          module |-> JStr(DictGet(LegacyBucket(cr, kind), n).module)]
    ELSE [title |-> Absent, module |-> Absent]

HasTitle(cr, kind, n) ==
    OccurrenceOf(cr, kind, n).title.t = "str" /\ OccurrenceOf(cr, kind, n).title.s # <<>>

DisplayNameOf(cr, kind) ==
    IF TypesOfKind(cr.event_types, kind) # {}
    THEN PyStr(FirstTypeOfKind(cr.event_types, kind).display_name)
    ELSE Capitalize(kind)

\* '<Kind display name> n - T - <course>'
RewrittenSummary(cr, kind, n, course) ==
    DisplayNameOf(cr, kind) \o <<" ">> \o IntToText(n) \o <<" ","-"," ">>
        \o OccurrenceOf(cr, kind, n).title.s \o <<" ","-"," ">> \o course

\* the case C10 is about: default templates, a titled occurrence that the
\* summary names, and the course-tag gate passed
TitledRewrite(kind, n) ==
    /\ Returned("rewrite_event") /\ args.cr # NoRules /\ args.summary # None
    /\ args.cr[1].title_template = DefaultTitleTemplate
    /\ args.cr[1].description_template = DefaultDescriptionTemplate
    /\ HasTitle(args.cr[1], kind, n)
    /\ NamesOccurrence(args.summary, kind, n)
    /\ ~(args.cr[1].require_course_in_summary /\ CourseTagMissing(args.summary, args.course))

ModuleText(v) == IF v.t = "absent" THEN <<>> ELSE PyStr(v)

Yields(tp, s) ==
    /\ Search(tp.pattern, s).found
    /\ \/ tp.event_type.unnumbered
       \/ Search(tp.pattern, s).ngroups = 0
       \/ IntOfGroup(Search(tp.pattern, s)).exc = "none"

\* what the pattern gives
YieldOf(tp, s) ==
    IF tp.event_type.unnumbered \/ Search(tp.pattern, s).ngroups = 0
    THEN Extracted(NoNum, tp.event_type.type)
    ELSE Extracted(Num(IntOfGroup(Search(tp.pattern, s)).val), tp.event_type.type)

\* the first pattern of the list, in order, that gives a number
FirstNumbered(l, s) ==
    IF \E i \in DOMAIN l : Search(l[i].pattern, s).found
                             /\ IntOfGroup(Search(l[i].pattern, s)).exc = "none"
    THEN With(l[Leftmost({i \in DOMAIN l :
                            /\ Search(l[i].pattern, s).found
                            /\ IntOfGroup(Search(l[i].pattern, s)).exc = "none"})],
              LAMBDA p : Extracted(Num(IntOfGroup(Search(p.pattern, s)).val), p.kind))
    ELSE Extracted(NoNum, None)

\* the event-type patterns in declared order, then the fallback patterns
FirstYield(l, s, fallback) ==
    IF \E i \in DOMAIN l : Yields(l[i], s)
    THEN YieldOf(l[Leftmost({i \in DOMAIN l : Yields(l[i], s)})], s)
    ELSE FirstNumbered(fallback, s)

\* C24: extract_number_and_kind tries the event types in declared order and
\* each type's patterns in declared order; the first pattern that yields a
\* result gives the kind, with no number for an unnumbered type or a pattern
\* without group and otherwise the integer of the first group; a pattern
\* whose first group is not numeric is skipped; only when no event-type
\* pattern yields a result does it fall back to the legacy fixed patterns,
\* in the order lecture, lab, exercise.
C24_FirstPattern ==
    (Returned("extract_number_and_kind") /\ args.cr # NoRules) =>
        result = Ok(FirstYield(TypePatterns(args.cr[1].event_types), OrEmpty(args.summary),
                               LegacyPatterns(NoRegex)))

\* the rule set with its legacy buckets emptied
WithoutBuckets(cr) ==
    << [cr[1] EXCEPT !.lectures = <<>>, !.labs = <<>>, !.exercises = <<>>] >>

\* the event type of the kind has an item for the number
ItemExists(cr, ex) ==
    /\ KindTruthy(ex.kind) /\ TypesOfKind(cr.event_types, ex.kind) # {}
    /\ DictHas(FirstTypeOfKind(cr.event_types, ex.kind).items, ex.n)

BucketsIgnored(ex) ==
    (ex.exc = "none" /\ (ItemExists(args.cr[1], ex.val) \/ ex.val.n = NoNum)) =>
        result = rewrite_event(args.summary, args.description, args.course,
                               WithoutBuckets(args.cr))

\* C25: in rewrite_event, when the event type of the detected kind has an
\* item for the extracted number, that item's metadata supplies the title and
\* module and the legacy bucket is not consulted: the result is the one of the
\* rule set without its legacy buckets; the bucket of the kind is consulted
\* only when no such item exists and a number was resolved.
C25_ItemOverLegacy ==
    (Returned("rewrite_event") /\ args.cr # NoRules) =>
        BucketsIgnored(extract_number_and_kind(args.summary, args.cr))

\* the event types whose pattern gave the kind: the one of the first
\* pattern that yields a result, none when the legacy patterns gave it
MatchedTypes(event_types, s) ==
    With(TypePatterns(event_types), LAMBDA l :
         IF \E i \in DOMAIN l : Yields(l[i], s)
         THEN <<l[Leftmost({i \in DOMAIN l : Yields(l[i], s)})].event_type>>
         ELSE <<>>)

\* the rule set with no event type but those
WithTypes(cr, event_types) == << [cr[1] EXCEPT !.event_types = event_types] >>

\* C30: the event type that rewrite_event uses for item lookup and display
\* name is the event type whose pattern matched the summary in
\* extract_number_and_kind, also when two event types share a name or the
\* kind comes from the legacy patterns: the result is the one of the rule
\* set reduced to the event type that matched.
C30_MatchedTypeUsed ==
    (Returned("rewrite_event") /\ args.cr # NoRules
         /\ extract_number_and_kind(args.summary, args.cr).exc = "none") =>
        result = rewrite_event(args.summary, args.description, args.course,
                               WithTypes(args.cr, MatchedTypes(args.cr[1].event_types,
                                                               OrEmpty(args.summary))))

\* the rule set applies: it exists and the course-tag gate passes
RuleSetApplies ==
    /\ Returned("rewrite_event") /\ args.cr # NoRules
    /\ ~(args.cr[1].require_course_in_summary
           /\ CourseTagMissing(args.summary, args.course))

\* the module resolved for the summary: a JSON value, JNull for none
ModuleFor(cr, ex) == ResolveMetadata(cr[1], ex.n, ex.kind).module

\* "x or empty" of a value that is text
TextOrEmpty(v) == IF Truthy(v) THEN PyStr(v) ELSE <<>>

\* the parts of a blank description that are not empty, in order
DescriptionParts(cr, module) ==
    (IF TextOrEmpty(module) # <<>> THEN <<TextOrEmpty(module)>> ELSE <<>>)
    \o (IF cr.canvas # None THEN <<CanvasLabel \o cr.canvas>> ELSE <<>>)

\* the description template of cr rendered with the three variables
Rendered(cr, module, old_desc) ==
    Format(TemplateOr(cr.description_template, DefaultDescriptionTemplate),
           [module |-> JStr(module), canvas |-> JStr(OrEmpty(cr.canvas)),
            old_desc |-> JStr(old_desc)])

\* the description as the claim words it: the rendered template as it is
DescriptionAsStated(cr, description, module) ==
    IF Strip(OrEmpty(description)) # <<>>
    THEN Rendered(cr, TextOrEmpty(module), Strip(OrEmpty(description)))
    ELSE Ok(Strip(JoinParts(DescriptionParts(cr, module))))

\* the rendered template trimmed, with the module trimmed before rendering
DescriptionTrimmed(cr, description, module) ==
    IF Strip(OrEmpty(description)) # <<>>
    THEN Try(Rendered(cr, Strip(TextOrEmpty(module)), Strip(OrEmpty(description))),
             LAMBDA r : Ok(Strip(r)))
    ELSE Ok(Strip(JoinParts(DescriptionParts(cr, module))))

DescriptionIs(built(_, _, _), ex) ==
    ex.exc = "none" /\ result.exc = "none"
        /\ Ok(result.val.description) = built(args.cr[1], args.description,
                                              ModuleFor(args.cr, ex.val))

-----------------------------------------------------------------------------
(* Specification of item matching: matches_item applied to the items that   *)
(* EventItem.from_dict builds from small item definitions                   *)

WithPriority(spec, priority) == JDict([spec.d EXCEPT !.priority = priority])

\* a strategy that matches "Group A", one that matches room Q17, one that
\* raises when it is evaluated, each without a priority and with priority 1 or 2
PrioritySpecs ==
    { WithPriority(spec, priority) :
        spec \in { PatternSpec("description", GroupA), LocationSpec(Q17),
                   LocationSpec(JInt(5)) },
        priority \in { Absent, JInt(1), JInt(2) } }
    \cup { WithPriority(PatternSpec("description", GroupA), JStr(<<"1">>)) }

MaxItemStrategies == 2

ItemDefs ==
    { JDict([EmptyItem EXCEPT !.number = JInt(1), !.match_priority = JList(l)]) :
        l \in UNION {[1..k -> PrioritySpecs] : k \in 0..MaxItemStrategies} }
    \cup { JDict([EmptyItem EXCEPT !.number = JInt(1)]),
           JDict([EmptyItem EXCEPT !.number = JInt(1), !.match = LocationSpec(Q17)]),
           JDict([EmptyItem EXCEPT !.number = JInt(1), !.group = GroupA]) }

Fri13 == JStr(<<"F","r","i"," ","1","3","-","1","5">>)

\* item definitions with every combination of the four strategy fields, with
\* and without number, title and room, and a definition that is not a dict
FromDictDefs ==
    { JDict([EmptyItem EXCEPT !.number = number, !.match_priority = mp, !.match = m,
                              !.timeslot = ts, !.group = g, !.title = title,
                              !.room = room]) :
        number \in {Absent, JInt(1)},
        mp \in {Absent, JList(<<>>), JList(<<LocationSpec(Q17), PatternSpec("description", GroupA)>>),
                JList(<<JInt(5)>>)},
        m \in {Absent, LocationSpec(Q17)}, ts \in {Absent, Fri13}, g \in {Absent, GroupA},
        title \in {Absent, JStr(Intro)}, room \in {Absent, Q17} }
    \cup { JStr(Intro) }

ItemArgs ==
    [op : {"matches_item"},
     item : {EventItem_from_dict(d).val : d \in ItemDefs},
     event : MatchEvents]
    \cup [op : {"from_dict"}, data : FromDictDefs]

ItemInit == CallInit(ItemArgs)

MatchesItemCall ==
    /\ args.op = "matches_item"
    /\ Return(matches_item(args.item, args.event.summary, args.event.description,
                           args.event.location, args.event.start_dt))

EventItemFromDictCall == args.op = "from_dict" /\ Return(EventItem_from_dict(args.data))

ItemNext == MatchesItemCall \/ EventItemFromDictCall

SpecItem == ItemInit /\ [][ItemNext]_vars

\* the event matches the strategy
StrategyMatches(strategy, event) ==
    matches_strategy(strategy, event.summary, event.description, event.location,
                     event.start_dt) = Ok(TRUE)

\* C13: matches_item returns true for an item without strategies, and
\* otherwise true iff one of the item's strategies matches the event,
\* whatever the priorities of the strategies.
C13_ItemDisjunction ==
    Returned("matches_item") =>
        result = Ok(\/ args.item.match_strategies = <<>>
                    \/ \E i \in DOMAIN args.item.match_strategies :
                          StrategyMatches(args.item.match_strategies[i], args.event))

StrategyFields == <<"match_priority", "match", "timeslot", "group">>

\* the first strategy field that the definition holds, "" for none
StrategySource(d) ==
    IF \E i \in 1..4 : d[StrategyFields[i]] # Absent
    THEN StrategyFields[Leftmost({i \in 1..4 : d[StrategyFields[i]] # Absent})]
    ELSE ""

\* the strategies that the field holds
StrategiesOf(d, field) ==
    IF field = "match_priority"
    THEN [i \in DOMAIN d.match_priority.l |-> MatchStrategy_from_dict(d.match_priority.l[i]).val]
    ELSE IF field = "match" THEN <<MatchStrategy_from_dict(d.match).val>>
    ELSE IF field = "timeslot"
    THEN << [strategy |-> "time", data |-> [NoStrategyData EXCEPT !.timeslot = d.timeslot],
             priority |-> JInt(DefaultPriority)] >>
    ELSE IF field = "group"
    THEN << [strategy |-> "description", data |-> [NoStrategyData EXCEPT !.pattern = d.group],
             priority |-> JInt(DefaultPriority)] >>
    ELSE <<>>

\* the fields of the definition kept as metadata are those of the set
MetadataIs(item, d, fields) ==
    \A f \in DOMAIN d :
        IF f \in fields /\ d[f] # Absent
        THEN f \in DOMAIN item.metadata /\ item.metadata[f] = d[f]
        ELSE f \notin DOMAIN item.metadata \/ item.metadata[f] = Absent

\* the strategies of a definition whose strategy field is well formed
WellFormedSource(d) ==
    d.match_priority # Absent =>
        /\ d.match_priority.t = "list"
        /\ \A i \in DOMAIN d.match_priority.l : d.match_priority.l[i].t = "dict"

-----------------------------------------------------------------------------
(* Specification of the splitter: one run of split_and_write over an        *)
(* upstream calendar that parses, given as its components in walk order     *)

Component(name, summary, description) ==
    [name |-> name, summary |-> summary, description |-> description,
     location |-> <<>>, start_dt |-> NoStart]

\* cal.walk() starts with the calendar itself
Root == Component("VCALENDAR", <<>>, <<>>)

Lab1 == <<"L","a","b"," ","1">> \o CourseTag(IS1200)

SplitComponents ==
    { Component("VTIMEZONE", <<>>, <<>>),
      Component("VEVENT", Lab1, <<"G","r","o","u","p"," ","A">>),
      Component("VEVENT", Lab1, <<"G","r","o","u","p"," ","B">>),
      Component("VEVENT", <<"L","u","n","c","h">>, <<>>),
      Component("VEVENT", <<"L","e","c","t","u","r","e"," ","1">> \o CourseTag(IX1303), Notes) }

MaxEvents == 2

Upstreams == { <<Root>> \o l : l \in UNION {[1..k -> SplitComponents] : k \in 0..MaxEvents} }

\* a lab type whose first occurrence is for group A only
FilterDoc ==
    [EmptyDoc EXCEPT
       !.course_code = JStr(IS1200),
       !.event_types = JList(<< JDict([EmptyType EXCEPT
           !.type = JStr(LabText),
           !.patterns = JList(<< JPattern(RE_LAB) >>),
           !.items = JList(<< JDict([EmptyItem EXCEPT
               !.number = JInt(1), !.title = JStr(Setup), !.group = GroupA]) >>)]) >>)]

\* what load_course_rules_dir gives for an empty directory and for two others
SplitRules ==
    { load_course_rules_dir(files).val :
        files \in { <<>>, <<JDict(FilterDoc)>>, <<JDict(LegacyDocA)>> } }

\* what load_token_map gives: no token, a token, an empty token
TokenMaps ==
    { <<>>, << [course |-> IS1200, token |-> <<"t","0">>] >>,
      << [course |-> IS1200, token |-> <<>>] >> }

\* the values uuid4().hex[:16] is drawn from
NewTokens == { <<"a","1">>, <<"b","2">> }

Init ==
    /\ phase = "call" /\ args = [op |-> "split_and_write"] /\ result = Ok(None)
    /\ pc = "start" /\ upstream \in Upstreams /\ pos = 0
    /\ rules_by_course \in SplitRules /\ token_map \in TokenMaps
    /\ buckets = <<>> /\ total = 0 /\ kept = 0 /\ filtered = 0
    /\ feeds = {} /\ written = 0 /\ raised = "none"
    /\ EnvIdle

\* split.py:22-27
ParseUpstream ==
    /\ pc = "start"
    /\ pc' = "loop" /\ pos' = 1
    /\ buckets' = <<>> /\ total' = 0 /\ kept' = 0 /\ filtered' = 0
    /\ UNCHANGED <<callvars, upstream, rules_by_course, token_map, feeds, written, raised,
                   envvars>>

\* split.py:30-31
SkipComponent ==
    /\ pc = "loop" /\ pos <= Len(upstream) /\ upstream[pos].name # "VEVENT"
    /\ pos' = pos + 1
    /\ UNCHANGED <<callvars, pc, upstream, rules_by_course, token_map, buckets, total, kept,
                   filtered, feeds, written, raised, envvars>>

WithBucket(d, course) ==
    IF HasCourse(d, course) THEN d ELSE Append(d, [course |-> course, events |-> <<>>])

\* the effect of one pass of the loop body with outcome o
Processed(o) ==
       LET b == WithBucket(buckets, o.course)
       IN  /\ total' = total + 1
           /\ IF o.outcome = "nocourse"
              THEN /\ pos' = pos + 1
                   /\ UNCHANGED <<callvars, pc, buckets, kept, filtered, raised>>
              ELSE IF o.outcome = "filtered"
              THEN /\ pos' = pos + 1 /\ buckets' = b /\ filtered' = filtered + 1
                   /\ UNCHANGED <<callvars, pc, kept, raised>>
              ELSE IF o.outcome = "kept"
              THEN /\ pos' = pos + 1 /\ kept' = kept + 1
                   /\ buckets' = PutCourse(b, [course |-> o.course,
                                               events |-> Append(AtCourse(b, o.course).events,
                                                                 o.event)])
                   /\ UNCHANGED <<callvars, pc, filtered, raised>>
              ELSE /\ buckets' = b
                   /\ pc' = "raised" /\ raised' = o.outcome
                   /\ phase' = "return" /\ result' = Raise(o.outcome)
                   /\ UNCHANGED <<args, pos, kept, filtered>>

\* a bug: the rules of the event's course are taken out of rules_by_course
ProcessEvent_pops_rules ==
    /\ pc = "loop" /\ pos <= Len(upstream) /\ upstream[pos].name = "VEVENT"
    /\ Processed(ProcessComponent(upstream[pos], rules_by_course))
    /\ rules_by_course' =
           SelectSeq(rules_by_course,
                     LAMBDA cr : cr.course # detect_course_code(upstream[pos].summary,
                                                                upstream[pos].description))
    /\ UNCHANGED <<upstream, token_map, feeds, written, envvars>>

\* split.py:32-109: one VEVENT; an exception leaves split_and_write
ProcessEvent ==
    /\ pc = "loop" /\ pos <= Len(upstream) /\ upstream[pos].name = "VEVENT"
    /\ Processed(ProcessComponent(upstream[pos], rules_by_course))
    /\ UNCHANGED <<upstream, rules_by_course, token_map, feeds, written, envvars>>

\* split.py:111-120
EndLoop ==
    /\ pc = "loop" /\ pos > Len(upstream)
    /\ pc' = "write" /\ pos' = 1 /\ written' = 0
    /\ UNCHANGED <<callvars, upstream, rules_by_course, token_map, buckets, total, kept,
                   filtered, feeds, raised, envvars>>

\* split.py:122-129: one bucket, in course order; a failed write is logged
WriteFeed ==
    /\ pc = "write" /\ pos <= Len(buckets)
    /\ \E new_tok \in NewTokens, ok \in BOOLEAN :
          LET bucket == SortedByCourse(buckets)[pos]
              tok    == ensure_token(token_map, bucket.course, new_tok)
              out    == FeedName(bucket.course, tok.token)
          IN  /\ token_map' = tok.token_map
              /\ IF ok
                 THEN /\ feeds' = {f \in feeds : f.name # out}
                                      \cup {[name |-> out, events |-> bucket.events]}
                      /\ written' = written + 1
                 ELSE UNCHANGED <<feeds, written>>
    /\ pos' = pos + 1
    /\ UNCHANGED <<callvars, pc, upstream, rules_by_course, buckets, total, kept, filtered,
                   raised, envvars>>

\* split.py:131
ReturnWritten ==
    /\ pc = "write" /\ pos > Len(buckets)
    /\ pc' = "done" /\ phase' = "return" /\ result' = Ok(written)
    /\ UNCHANGED <<args, upstream, pos, rules_by_course, token_map, buckets, total, kept,
                   filtered, feeds, written, raised, envvars>>

Next == ParseUpstream \/ SkipComponent \/ ProcessEvent \/ EndLoop \/ WriteFeed \/ ReturnWritten

Spec == Init /\ [][Next]_vars

\* the VEVENTs of the upstream calendar, and those with a detected course
VEvents == {i \in DOMAIN upstream : upstream[i].name = "VEVENT"}

Detected ==
    {i \in VEvents :
        detect_course_code(upstream[i].summary, upstream[i].description) \notin {None, <<>>}}

\* C1: with an event whose course is detected, split_and_write completes
\* without raising: every detected event is kept or filtered, the return
\* value is the number of files written, every file is named
\* '<course>--<token>.ics' for a bucketed course and its token, and token_map
\* holds a token for every bucketed course.
C1_CompletesAndWrites ==
    Detected # {} =>
        /\ pc # "raised"
        /\ pc = "done" =>
             /\ result.val = written /\ written = Cardinality(feeds)
             /\ kept + filtered = Cardinality(Detected)
             /\ \A i \in DOMAIN buckets :
                   /\ HasCourse(token_map, buckets[i].course)
                   /\ AtCourse(token_map, buckets[i].course).token # <<>>
             /\ \A f \in feeds :
                   \E i \in DOMAIN buckets :
                       f.name = FeedName(buckets[i].course,
                                         AtCourse(token_map, buckets[i].course).token)

\* C4: a failure while one event is processed does not end the run: every
\* VEVENT of the upstream calendar is still counted and the run goes on to
\* write the buckets and return.
C4_EventsIsolated ==
    raised # "none" =>
        /\ total = Cardinality(VEvents)
        /\ pc = "done"

\* one step of the pass leaves the rule sets, the inputs and what outlives
\* the run as they were: token_map, buckets, the counters, the files written
\* from the buckets and the position of the run are all that may change
ReadOnlyStep == UNCHANGED <<rules_by_course, args, upstream, envvars>>

-----------------------------------------------------------------------------
(* Specification of successive runs of main: load_token_map,                *)
(* split_and_write, save_token_map, over one feeds directory and one token  *)
(* file                                                                     *)

\* lab rules of a course: occurrence 1 is for group A only
GroupFilterDoc(course) == [FilterDoc EXCEPT !.course_code = JStr(course)]

RunRules == load_course_rules_dir(<<JDict(GroupFilterDoc(IS1200)),
                                    JDict(GroupFilterDoc(IX1303))>>).val

GroupBLab(course) ==
    Component("VEVENT", <<"L","a","b"," ","1">> \o CourseTag(course),
              <<"G","r","o","u","p"," ","B">>)

RunComponents ==
    { GroupBLab(IS1200), GroupBLab(IX1303),
      Component("VEVENT", Lab1, <<"G","r","o","u","p"," ","A">>),
      Component("VEVENT", <<"L","u","n","c","h">>, <<>>) }

RunUpstreams ==
    { <<Root>> \o l : l \in UNION {[1..k -> RunComponents] : k \in 0..MaxEvents} }

TokenFiles == {NoTokenFile} \cup {TokenFile(map) : map \in TokenMaps}

MaxRuns == 2

RunsInit ==
    /\ phase = "call" /\ args = [op |-> "main"] /\ result = Ok(None)
    /\ pc = "exited" /\ upstream = <<>> /\ pos = 0
    /\ rules_by_course = RunRules /\ token_map = <<>>
    /\ buckets = <<>> /\ total = 0 /\ kept = 0 /\ filtered = 0
    /\ feeds = {} /\ written = 0 /\ raised = "none"
    /\ token_file \in TokenFiles /\ runs = 0
    /\ state_file = <<>> /\ source = <<>> /\ fetched = <<>>

\* main.py:39-50: the upstream changed; the rules and the token map are loaded
StartRun ==
    /\ pc = "exited" /\ runs < MaxRuns
    /\ runs' = runs + 1
    /\ upstream' \in RunUpstreams
    /\ token_map' = load_token_map(token_file)
    /\ pc' = "start" /\ pos' = 0 /\ raised' = "none"
    /\ phase' = "call" /\ result' = Ok(None)
    /\ UNCHANGED <<args, rules_by_course, buckets, total, kept, filtered, feeds, written,
                   token_file, state_file, source, fetched>>

\* main.py:51-54
SaveTokens ==
    /\ pc = "done"
    /\ token_file' = save_token_map(token_map)
    /\ pc' = "exited"
    /\ UNCHANGED <<callvars, upstream, pos, rules_by_course, token_map, buckets, total, kept,
                   filtered, feeds, written, raised, runs, state_file, source, fetched>>

\* main.py:58-62: the exception of split_and_write ends the process
ExitOnError ==
    /\ pc = "raised"
    /\ pc' = "exited"
    /\ UNCHANGED <<callvars, upstream, pos, rules_by_course, token_map, buckets, total, kept,
                   filtered, feeds, written, raised, envvars>>

RunsNext ==
    \/ StartRun \/ ParseUpstream \/ SkipComponent \/ ProcessEvent \/ EndLoop \/ WriteFeed
    \/ ReturnWritten \/ SaveTokens \/ ExitOnError

SpecRuns == RunsInit /\ [][RunsNext]_vars

\* the map holds a non-empty token for the course
HoldsToken(map, course) == HasCourse(map, course) /\ AtCourse(map, course).token # <<>>

\* every non-empty token of map is the token of the same course in other
KeepsTokens(map, other) ==
    \A i \in DOMAIN map :
        map[i].token # <<>> =>
            HoldsToken(other, map[i].course)
            /\ AtCourse(other, map[i].course).token = map[i].token

\* C14: a course's token is stable.  In every step, a course that holds a
\* non-empty token in token_map or in the token file holds the same token
\* afterwards; the step of the write loop for a course leaves token_map as it
\* is when it holds a non-empty token for the course and otherwise changes
\* the entry of that course only, to a non-empty token; and every file of the
\* feeds directory, over all runs, is named '<course>--<token>.ics' for a
\* course and the token token_map then holds for it.
C14_StableToken ==
    [][ /\ KeepsTokens(token_map, token_map')
        /\ KeepsTokens(load_token_map(token_file), load_token_map(token_file'))
        /\ (pc = "write" /\ pos' = pos + 1) =>
              LET course == SortedByCourse(buckets)[pos].course
              IN  /\ HoldsToken(token_map, course) => token_map' = token_map
                  /\ HoldsToken(token_map', course)
                  /\ \A i \in DOMAIN token_map :
                        token_map[i].course # course =>
                            /\ HasCourse(token_map', token_map[i].course)
                            /\ AtCourse(token_map', token_map[i].course) = token_map[i]
                  /\ \A i \in DOMAIN token_map' :
                        token_map'[i].course # course => HasCourse(token_map, token_map'[i].course)
        /\ \A f \in feeds' :
              \E i \in DOMAIN token_map' :
                  f.name = FeedName(token_map'[i].course, token_map'[i].token)
      ]_vars

\* the second run has written the feed of a course under the token that the
\* first run drew and saved, beside the feed of a course that had its token
C14_Witness ==
    /\ runs = 2 /\ pc = "done" /\ written = 2
    /\ token_map = << [course |-> IS1200, token |-> <<"t","0">>],
                      [course |-> IX1303, token |-> <<"a","1">>] >>
    /\ token_file = TokenFile(token_map)
    /\ feeds = { [name |-> FeedName(IS1200, <<"t","0">>), events |-> <<>>],
                 [name |-> FeedName(IX1303, <<"a","1">>), events |-> <<>>] }

-----------------------------------------------------------------------------
(* Specification of the upstream fetch: successive calls of                 *)
(* fetch_upstream_if_changed over one state file, in one mode, with an      *)
(* upstream that changes between calls                                      *)

Url == <<"h","t","t","p",":","/","/","u">>

Datas == { <<>>, <<"A">>, <<"B">> }

ETagOf(data) == <<"W","/">> \o data

\* the upstream: a server may send no entity tag and no Last-Modified
Sources ==
    { [exists |-> e, data |-> d, etag |-> t, last_modified |-> lm] :
        e \in BOOLEAN, d \in Datas, t \in {None}, lm \in {NoNum, Num(0)} }
    \cup { [exists |-> e, data |-> d, etag |-> ETagOf(d), last_modified |-> lm] :
             e \in BOOLEAN, d \in Datas, lm \in {NoNum, Num(0)} }

\* what state_path holds before the first call: nothing, or the state an
\* earlier run wrote
StateFiles ==
    { NoStateFile,
      StateFile([NoState EXCEPT !.mode = "local", !.sha256 = _sha256_bytes(<<"A">>)]),
      StateFile([NoState EXCEPT !.mode = "http", !.sha256 = _sha256_bytes(<<"A">>),
                                !.last_modified = Num(0)]) }

MaxCalls == 3

FetchInit ==
    /\ phase = "call" /\ result = Ok(None)
    /\ args \in [op : {"fetch_upstream_if_changed"}, source_url : {<<" ">>, Url}]
    /\ pc = "idle" /\ upstream = <<>> /\ pos = 0 /\ rules_by_course = <<>> /\ token_map = <<>>
    /\ buckets = <<>> /\ total = 0 /\ kept = 0 /\ filtered = 0
    /\ feeds = {} /\ written = 0 /\ raised = "none"
    /\ token_file = <<>> /\ runs = 0
    /\ state_file \in StateFiles /\ source \in Sources /\ fetched = <<>>

\* the effect of a call with outcome f
FetchReturns(f) ==
    /\ result' = Ok(f.result)
    /\ state_file' = f.state_file
    /\ fetched' = Append(fetched, [source |-> source, before |-> _read_state(state_file),
                                   status |-> f.status, result |-> f.result])

\* main.py:39: one run's call
FetchCall ==
    /\ runs < MaxCalls
    /\ runs' = runs + 1 /\ phase' = "return"
    /\ \E head_ok \in BOOLEAN, get_ok \in BOOLEAN :
          FetchReturns(fetch_upstream_if_changed(args.source_url, state_file, source,
                                                 head_ok, get_ok))
    /\ UNCHANGED <<args, pc, upstream, pos, rules_by_course, token_map, buckets, total, kept,
                   filtered, feeds, written, raised, token_file, source>>

\* between two runs the upstream is written: it may get another content, the
\* file may vanish or come back, and the Last-Modified time, in whole
\* seconds, may stay as it was
ChangeUpstream ==
    /\ runs < MaxCalls /\ phase = "return"
    /\ phase' = "call"
    /\ \E e \in BOOLEAN, d \in Datas, later \in BOOLEAN :
          source' = [exists |-> e, data |-> d,
                     etag |-> IF source.etag = None THEN None ELSE ETagOf(d),
                     last_modified |->
                        IF source.last_modified = NoNum THEN NoNum
                        ELSE IF later /\ source.last_modified[1] < MaxCalls
                        THEN Num(source.last_modified[1] + 1)
                        ELSE source.last_modified]
    /\ UNCHANGED <<args, result, pc, upstream, pos, rules_by_course, token_map, buckets,
                   total, kept, filtered, feeds, written, raised, token_file, runs,
                   state_file, fetched>>

FetchNext == FetchCall \/ ChangeUpstream

SpecFetch == FetchInit /\ [][FetchNext]_vars

FetchMode == IF Strip(OrEmpty(args.source_url)) = <<>> THEN "local" ELSE "http"

\* the calls before call k that returned bytes
ReturnedBefore(k) == {j \in 1..(k - 1) : fetched[j].result # None}

\* the content at call k is the content of the last call that returned bytes,
\* or, before any such call, the content the state file recorded for the mode
Unchanged(k) ==
    IF ReturnedBefore(k) # {}
    THEN LET j == CHOOSE i \in ReturnedBefore(k) : \A h \in ReturnedBefore(k) : h <= i
         IN  fetched[j].source.data = fetched[k].source.data
    ELSE /\ fetched[k].before.mode = FetchMode
         /\ fetched[k].before.sha256 = _sha256_bytes(fetched[k].source.data)

\* the upstream answered call k: the local file was there, or the GET was
\* answered with 200 or 304
Answered(k) == fetched[k].status \in {"local", "200", "304"}

\* call k read the content: the local file, or a 200 with a body that is not empty
ReadContent(k) ==
    \/ fetched[k].status = "local"
    \/ fetched[k].status = "200" /\ fetched[k].source.data # <<>>

\* C15 as stated: a call returns None when the content is unchanged since the
\* last run, and the (new) bytes whenever the upstream answers with a content
\* that changed.
C15_ReturnsIfChanged ==
    \A k \in DOMAIN fetched :
        /\ fetched[k].result \in {None, fetched[k].source.data}
        /\ Unchanged(k) => fetched[k].result = None
        /\ (~Unchanged(k) /\ Answered(k)) => fetched[k].result = fetched[k].source.data

\* C15: a call returns None when the content is unchanged since the last run
\* in the same mode, and the new bytes when the content changed and the call
\* read it: the local file, or a 200 answer with a body that is not empty (a
\* 304 answer and an empty body give None).
C15_ReturnsIfChangedAndRead ==
    \A k \in DOMAIN fetched :
        /\ fetched[k].result \in {None, fetched[k].source.data}
        /\ Unchanged(k) => fetched[k].result = None
        /\ (~Unchanged(k) /\ ReadContent(k)) => fetched[k].result = fetched[k].source.data

\* over HTTP: the bytes, then None for the same content, then the new bytes
C15_Witness ==
    /\ FetchMode = "http" /\ Len(fetched) = 3
    /\ fetched[1].result = <<"A">> /\ fetched[2].result = None /\ fetched[3].result = <<"B">>
    /\ fetched[2].source = fetched[1].source
    /\ fetched[2].status = "304"

-----------------------------------------------------------------------------
(* Specification of the loader on numbered entries and templates: from_json *)
(* applied to documents whose legacy lists, event-type items and templates  *)
(* hold bad values                                                          *)

MaxLegacyLen == 3

MaxItems == 2

ListsUpTo(S, n) == UNION {[1..k -> S] : k \in 0..n}

LegacyEntry(number, title) == JDict([number |-> number, title |-> title, module |-> Absent])

\* entries that are not dicts, lack a number, carry one that int() refuses or
\* that is not positive, and entries that share the number 1
LegacyEntries ==
    { JStr(<<"x">>),
      LegacyEntry(Absent, JStr(Intro)),
      LegacyEntry(JStr(<<"a","b">>), JStr(Intro)),
      LegacyEntry(JInt(0), JStr(Intro)),
      LegacyEntry(JInt(-1), JStr(Intro)),
      LegacyEntry(JInt(1), JStr(Intro)),
      LegacyEntry(JInt(1), JStr(Setup)),
      LegacyEntry(JStr(<<"1">>), JStr(Drill)),
      LegacyEntry(JInt(2), Absent) }

LegacyKeys == {"lectures", "labs", "exercises"}

\* Schema A with an 'items' value, Schema B with one of the three lists
LegacyListDocs ==
    { [EmptyDoc EXCEPT !.course = JStr(IS1200), !.items = v] :
        v \in {JList(l) : l \in ListsUpTo(LegacyEntries, MaxLegacyLen)}
              \cup {JNull, JInt(5), JStr(<<"a","b">>)} }
    \cup { [EmptyDoc EXCEPT !.course_code = JStr(IS1200), ![key] = JList(l)] :
             key \in LegacyKeys, l \in ListsUpTo(LegacyEntries, MaxLegacyLen - 1) }

ItemNumbers == { Absent, JNull, JInt(0), JInt(-1), JStr(<<"x">>), JStr(<<"2">>), JInt(1) }

\* one event type whose items carry the numbers above
NumberedItemDocs ==
    { [EmptyDoc EXCEPT
         !.course_code = JStr(IS1200),
         !.event_types = JList(<< JDict([EmptyType EXCEPT
             !.type = JStr(LabText),
             !.items = JList([i \in DOMAIN l |->
                                JDict([EmptyItem EXCEPT !.number = l[i],
                                                        !.title = JStr(Setup)])])]) >>)] :
        l \in ListsUpTo(ItemNumbers, MaxItems) }

SpecPiece(f, spec) == [lit |-> <<>>, field |-> f, conv |-> "", spec |-> spec]

Malformed == [malformed |-> TRUE, pieces |-> <<>>]

\* "{title}", "{module}", "{0}", "{}", "{", "{n:{foo}}", "{n:abc}"
TitleTemplates ==
    { Template(<<Piece(<<>>, "title")>>), Template(<<Piece(<<>>, "module")>>),
      Template(<<Piece(<<>>, "0")>>), Template(<<Piece(<<>>, "")>>), Malformed,
      Template(<<SpecPiece("n", "{foo}")>>), Template(<<SpecPiece("n", "abc")>>) }

\* "{old_desc}", "{title}", "{}", "{", "{module:{foo}}"
DescriptionTemplates ==
    { Template(<<Piece(<<>>, "old_desc")>>), Template(<<Piece(<<>>, "title")>>),
      Template(<<Piece(<<>>, "")>>), Malformed,
      Template(<<SpecPiece("module", "{foo}")>>) }

TemplateDocs ==
    { [EmptyDoc EXCEPT !.course = JStr(IS1200),
                       !.title_template = t, !.description_template = d,
                       !.items = JList(<< LegacyItem(1, Intro, Module1) >>)] :
        t \in {Absent} \cup {JTemplate(x) : x \in TitleTemplates},
        d \in {Absent} \cup {JTemplate(x) : x \in DescriptionTemplates} }

\* legacy lists next to declared event types, and the three lists together
MigrationDocs ==
    { UnmigratedDoc, [LabTypeDoc EXCEPT !.labs = JList(<< LegacyItem(1, Intro, Module1) >>)] }
    \cup LegacyDocsB

LoadArgs ==
    [op : {"from_json"},
     data : LegacyListDocs \cup NumberedItemDocs \cup TemplateDocs \cup MigrationDocs]

LoadInit == CallInit(LoadArgs)

LoadNext == FromJsonCall

SpecLoad == LoadInit /\ [][LoadNext]_vars

\* C16: in every rule set produced by from_json, every key of every event
\* type's items mapping is None or a strictly positive integer, and a document
\* whose event_types items carry other numbers still loads.
C16_ItemKeysPositive ==
    (Returned("from_json") /\ args.data.event_types.t = "list") =>
        /\ result.exc = "none"
        /\ \A i \in DOMAIN result.val.event_types :
              \A k \in DictKeys(result.val.event_types[i].items) : k = NoNum \/ k[1] > 0

\* an entry of a legacy list that the loop stores
ValidEntry(e) ==
    /\ e.t = "dict"
    /\ PyInt(Get(e.d.number)).exc = "none"
    /\ PyInt(Get(e.d.number)).val > 0

\* the last valid entry of arr numbered n is at position i
LastOf(arr, n, i) ==
    /\ ValidEntry(arr[i]) /\ PyInt(Get(arr[i].d.number)).val = n
    /\ \A j \in DOMAIN arr :
          (j > i /\ ValidEntry(arr[j])) => PyInt(Get(arr[j].d.number)).val # n

\* bucket holds exactly the numbers of the valid entries of arr, each once,
\* with the title and module of the last entry of that number
LastWins(arr, bucket) ==
    /\ DictKeys(bucket) =
           {PyInt(Get(arr[i].d.number)).val : i \in {j \in DOMAIN arr : ValidEntry(arr[j])}}
    /\ Cardinality(DictKeys(bucket)) = Len(bucket)
    /\ \A i \in DOMAIN arr : \A n \in DictKeys(bucket) :
          LastOf(arr, n, i) =>
              /\ DictGet(bucket, n).title = ItemText(arr[i].d.title)
              /\ DictGet(bucket, n).module = ItemText(arr[i].d.module)

\* the document without its legacy lists
WithoutLists(data) ==
    [data EXCEPT !.items = Absent, !.lectures = Absent, !.labs = Absent, !.exercises = Absent]

\* the legacy keys that from_json reads under the schema of the document,
\* each with the bucket it fills
LegacyKeysOf(data) ==
    IF detect_schema(data) = Ok("A") THEN {<<"items", "lectures">>}
    ELSE {<<k, k>> : k \in LegacyKeys}

MigrationKinds(cr) ==
    << [kind |-> LectureText, bucket |-> cr.lectures, pattern |-> DEFAULT_SUMMARY_RE],
       [kind |-> LabText, bucket |-> cr.labs, pattern |-> RE_LAB],
       [kind |-> ExerciseText, bucket |-> cr.exercises, pattern |-> RE_EXERCISE] >>

\* event_type is the numbered type of the kind, with one item per entry of
\* the bucket, carrying its title and module and no strategy
MigratedFrom(event_type, k) ==
    /\ event_type.type = k.kind /\ ~event_type.unnumbered
    /\ event_type.patterns = <<k.pattern>>
    /\ Len(event_type.items) = Len(k.bucket)
    /\ \A i \in DOMAIN k.bucket :
          /\ DictHas(event_type.items, Num(k.bucket[i].number))
          /\ DictGet(event_type.items, Num(k.bucket[i].number)).metadata.title
                 = JStr(k.bucket[i].title)
          /\ DictGet(event_type.items, Num(k.bucket[i].number)).metadata.module
                 = JStr(k.bucket[i].module)
          /\ DictGet(event_type.items, Num(k.bucket[i].number)).match_strategies = <<>>

\* the event types are those of the non-empty buckets, one each
OnePerBucket(cr) ==
    /\ Len(cr.event_types)
           = Cardinality({j \in 1..3 : MigrationKinds(cr)[j].bucket # <<>>})
    /\ \A j \in 1..3 :
          MigrationKinds(cr)[j].bucket # <<>> =>
              \E i \in DOMAIN cr.event_types :
                  MigratedFrom(cr.event_types[i], MigrationKinds(cr)[j])

\* every event type is what EventType.from_dict gives for a declared entry
OnlyDeclared(cr, declared) ==
    \A i \in DOMAIN cr.event_types :
        \E j \in DOMAIN declared :
            /\ declared[j].t = "dict"
            /\ EventType_from_dict(declared[j].d) = Ok(cr.event_types[i])

\* C22: when a rule document declares no event_types, from_json synthesizes
\* exactly one numbered EventType per non-empty legacy bucket, with the
\* built-in pattern of its kind and one item per legacy number carrying the
\* entry's title and module and no match strategies; when the document
\* declares event_types, the event types are only the declared ones and no
\* legacy bucket is migrated.
C22_Migration ==
    (Returned("from_json") /\ result.exc = "none") =>
        IF args.data.event_types.t = "absent"
        THEN OnePerBucket(result.val)
        ELSE OnlyDeclared(result.val, args.data.event_types.l)

\* Schema B with the three lists: three event types, in the order lecture,
\* lab, exercise
C22_Witness ==
    /\ Returned("from_json") /\ result.exc = "none"
    /\ args.data.event_types.t = "absent"
    /\ Len(result.val.event_types) = 3
    /\ result.val.event_types[2].type = LabText
    /\ result.val.event_types[2].patterns = <<RE_LAB>>
    /\ DictKeys(result.val.event_types[3].items) = {Num(2)}

\* what a template refers to: its replacement fields, the anonymous one
\* included, and the fields nested in its format specifications
RefersTo(template) ==
    ({template.pieces[i].field : i \in DOMAIN template.pieces} \ {NoField})
    \cup {"foo" : i \in {j \in DOMAIN template.pieces : template.pieces[j].spec = "{foo}"}}

\* C18: after load the title template refers only to kind, n, title, course
\* and the description template only to module, canvas, old_desc; a document
\* whose template uses anything else still loads, with the default in its
\* place, and rendering the templates in rewrite_event never fails for lack
\* of a variable.
C18_TemplateVars ==
    (Returned("from_json") /\ args.data \in TemplateDocs) =>
        /\ result.exc = "none"
        /\ ~result.val.title_template.malformed
        /\ RefersTo(result.val.title_template) \subseteq TitleVars
        /\ ~result.val.description_template.malformed
        /\ RefersTo(result.val.description_template) \subseteq DescriptionVars
        /\ rewrite_event(<<"L","e","c","t","u","r","e"," ","1">>, Notes, IS1200,
                         <<result.val>>).exc \notin {"KeyError", "IndexError"}

-----------------------------------------------------------------------------
(* The match-strategy filter within one run of split_and_write *)

\* matches_item returned False for the item
Refuses(item, comp) ==
    matches_item(item, comp.summary, comp.description, comp.location, comp.start_dt)
        = Ok(FALSE)

\* the conditions under which the items of the event type drop the event:
\* (a) numbered, (b) unnumbered
ItemsDrop(items, comp, n) ==
    /\ items # <<>>
    /\ \/ /\ n # NoNum /\ DictHas(items, n)
          /\ DictGet(items, n).match_strategies # <<>>
          /\ Refuses(DictGet(items, n), comp)
       \/ /\ n = NoNum
          /\ \E i \in DOMAIN items : items[i].match_strategies # <<>>
          /\ \A i \in DOMAIN items :
                items[i].match_strategies # <<>> => Refuses(items[i], comp)

ExtractedDrop(cr, comp, ex) ==
    /\ ex.exc = "none"
    /\ KindTruthy(ex.val.kind) /\ TypesOfKind(cr.event_types, ex.val.kind) # {}
    /\ ItemsDrop(FirstTypeOfKind(cr.event_types, ex.val.kind).items, comp, ex.val.n)

\* the rule set cr (NoRules for none) drops the event
Drops(cr, comp) ==
    /\ cr # NoRules /\ cr[1].event_types # <<>>
    /\ ExtractedDrop(cr[1], comp, extract_number_and_kind(comp.summary, cr))

\* the event at pos has a detected course
AtDetected(course) ==
    /\ pc = "loop" /\ pos <= Len(upstream) /\ upstream[pos].name = "VEVENT"
    /\ course # None /\ course # <<>>

FilterStep(comp, course) ==
    AtDetected(course) =>
        IF Drops(RulesFor(rules_by_course, course), comp)
        THEN filtered' = filtered + 1 /\ kept' = kept
        ELSE kept' = kept + 1 /\ filtered' = filtered

\* the step taken for the component at pos
FilterSteps ==
    pos \in DOMAIN upstream =>
        FilterStep(upstream[pos],
                   detect_course_code(upstream[pos].summary, upstream[pos].description))

\* C19: in split_and_write an event with a detected course is dropped by the
\* match-strategy filter iff its rule set has event types, the event type of
\* its kind has items, and (a) the item of its number carries strategies and
\* matches_item is false for it, or (b) it has no number, some item carries
\* strategies and no such item matches; in every other case it is kept.
C19_FilterDrop == [][FilterSteps]_vars

-----------------------------------------------------------------------------
(* Specification of re-application: rewrite_event applied to an event and   *)
(* then, with the same rule set, to the summary and description it returned *)

\* a title template without number ("{title}") and a description template
\* of the allowed variables only
TitleOnlyDoc ==
    [LegacyDocA EXCEPT
       !.title_template = JTemplate(Template(<<Piece(<<>>, "title")>>)),
       !.description_template = JTemplate(Template(<<Piece(<<>>, "old_desc")>>))]

\* the description template "{old_desc:abc}"
DescriptionSpecDoc ==
    [LegacyDocA EXCEPT
       !.description_template = JTemplate(Template(<<SpecPiece("old_desc", "abc")>>))]

ReapplyDocs ==
    { LegacyDocA, OptionalNumberDoc, LabTypeDoc, UnnumberedDoc, TitleOnlyDoc,
      DescriptionSpecDoc }

ReapplyArgs ==
    [op : {"rewrite_event"}, summary : Summaries, description : {<<>>, Notes},
     course : {IS1200}, cr : {NoRules} \cup {<<from_json(doc).val>> : doc \in ReapplyDocs}]

ReapplyInit == CallInit(ReapplyArgs)

\* rewrite_event is called again with what it returned
Reapply ==
    /\ phase = "return" /\ result.exc = "none"
    /\ phase' = "again"
    /\ args' = [args EXCEPT !.summary = result.val.summary,
                            !.description = result.val.description]
    /\ result' = rewrite_event(result.val.summary, result.val.description,
                               args.course, args.cr)
    /\ UNCHANGED procvars

ReapplyNext == RewriteEventCall \/ Reapply

SpecReapply == ReapplyInit /\ [][ReapplyNext]_vars

\* the item of number n of the event type of kind, or the entry of number n
\* of the legacy bucket of kind, has a non-empty title
TitleResolved(cr, n, kind) ==
    \/ /\ TypesOfKind(cr.event_types, kind) # {}
       /\ DictHas(FirstTypeOfKind(cr.event_types, kind).items, n)
       /\ Truthy(ItemGet(DictGet(FirstTypeOfKind(cr.event_types, kind).items, n), "title"))
    \/ \E b \in { IF kind = LectureText THEN cr.lectures
                  ELSE IF kind = LabText THEN cr.labs
                  ELSE IF kind = ExerciseText THEN cr.exercises ELSE <<>> } :
          \E i \in DOMAIN b : b[i].number = n[1] /\ Strip(b[i].title) # <<>>

\* extract_number_and_kind gave a number for the summary and its title is there
Resolved(cr, ex) ==
    /\ cr # NoRules /\ ex.exc = "none" /\ ex.val.n # NoNum
    /\ TitleResolved(cr[1], ex.val.n, ex.val.kind)

\* no number is extracted from the summary
NoNumbering(cr, ex) == ex.exc = "none" /\ ex.val.n = NoNum

\* C20: rewrite_event changes the summary only when a number and a non-empty
\* title were resolved; applied with the same rule set to its own output, it
\* does not raise and returns the summary unchanged whenever that output
\* summary holds no numbering pattern.
C20_Reapply ==
    /\ (Returned("rewrite_event") /\ result.exc = "none"
            /\ result.val.summary # args.summary) =>
           Resolved(args.cr, extract_number_and_kind(args.summary, args.cr))
    /\ (phase = "again"
            /\ NoNumbering(args.cr, extract_number_and_kind(args.summary, args.cr))) =>
           (result.exc = "none" /\ result.val.summary = args.summary)

-----------------------------------------------------------------------------
(* The change-state file across the calls of fetch_upstream_if_changed *)

\* the state written for the bytes returned
WrittenFor(file, data) ==
    /\ file.t = "dict"
    /\ file.d.mode = FetchMode
    /\ file.d.sha256 = _sha256_bytes(data)

\* one call: the file is written when bytes are returned, else left alone
StateStep ==
    runs' = runs + 1 =>
        IF result'.val = None THEN state_file' = state_file
        ELSE state_file' # state_file /\ WrittenFor(state_file', result'.val)

\* C26: fetch_upstream_if_changed writes the change-state file exactly when
\* it returns bytes; on every path that returns None the persisted state is
\* left exactly as it was before the call.
C26_StateWrittenIffBytes == [][StateStep]_vars

\* the first call returns bytes and writes the state, the second, over HTTP,
\* is answered 304 and leaves the state as the first call wrote it
C26_Witness ==
    /\ Len(fetched) = 3 /\ FetchMode = "http"
    /\ fetched[1].result # None /\ fetched[2].before # fetched[1].before
    /\ fetched[2].result = None /\ fetched[2].status = "304"
    /\ fetched[3].before = fetched[2].before

-----------------------------------------------------------------------------
(* Specification of successive runs of main with the fetch: each run calls  *)
(* fetch_upstream_if_changed, exits when it gives None, and otherwise       *)
(* splits the bytes it got; the upstream may be rewritten between runs      *)

\* the contents the upstream may hold
Calendars == { <<"A">>, <<"B">> }

\* split.py:21: the components of the calendar the bytes hold; the lab of
\* content A is for group A and is kept, the lab of content B is filtered
Calendar_from_ical(data) ==
    IF data = <<"A">>
    THEN <<Root, Component("VEVENT", Lab1, <<"G","r","o","u","p"," ","A">>)>>
    ELSE <<Root, GroupBLab(IS1200)>>

MainSources == {src \in Sources : src.exists /\ src.data \in Calendars}

MaxMainRuns == 3

MainInit ==
    /\ phase = "call" /\ result = Ok(None)
    /\ args \in [op : {"main"}, source_url : {<<" ">>, Url}]
    /\ pc = "exited" /\ upstream = <<>> /\ pos = 0
    /\ rules_by_course = RunRules /\ token_map = <<>>
    /\ buckets = <<>> /\ total = 0 /\ kept = 0 /\ filtered = 0
    /\ feeds = {} /\ written = 0 /\ raised = "none"
    /\ token_file = NoTokenFile /\ runs = 0
    /\ state_file = NoStateFile /\ source \in MainSources /\ fetched = <<>>

\* main.py:39-50: the run goes on with the bytes f.result, or ends with 0
Started(f) ==
    /\ FetchReturns(f)
    /\ IF f.result = None
       THEN UNCHANGED <<pc, upstream, token_map>>
       ELSE /\ pc' = "start"
            /\ upstream' = Calendar_from_ical(f.result)
            /\ token_map' = load_token_map(token_file)

\* main.py:24-50: a new process
RunMain ==
    /\ pc = "exited" /\ runs < MaxMainRuns
    /\ runs' = runs + 1 /\ phase' = "call" /\ pos' = 0 /\ raised' = "none"
    /\ \E head_ok \in BOOLEAN, get_ok \in BOOLEAN :
          Started(fetch_upstream_if_changed(args.source_url, state_file, source,
                                            head_ok, get_ok))
    /\ UNCHANGED <<args, rules_by_course, buckets, total, kept, filtered, feeds, written,
                   token_file, source>>

\* between two runs the upstream is written, with the same or another content
UpstreamWritten ==
    /\ pc = "exited" /\ runs \in 1..(MaxMainRuns - 1)
    /\ \E d \in Calendars, later \in BOOLEAN :
          source' = [exists |-> TRUE, data |-> d,
                     etag |-> IF source.etag = None THEN None ELSE ETagOf(d),
                     last_modified |->
                        IF source.last_modified = NoNum THEN NoNum
                        ELSE IF later /\ source.last_modified[1] < MaxMainRuns
                        THEN Num(source.last_modified[1] + 1)
                        ELSE source.last_modified]
    /\ source' # source
    /\ UNCHANGED <<callvars, pc, upstream, pos, rules_by_course, token_map, buckets, total,
                   kept, filtered, feeds, written, raised, token_file, runs, state_file,
                   fetched>>

MainNext ==
    \/ RunMain \/ UpstreamWritten \/ ParseUpstream \/ SkipComponent \/ ProcessEvent
    \/ EndLoop \/ WriteFeed \/ ReturnWritten \/ SaveTokens \/ ExitOnError

SpecMain == MainInit /\ [][MainNext]_vars

\* the last call of fetch_upstream_if_changed
LastFetch(log) == log[Len(log)]

\* a run that follows a run in which split_and_write raised, with the
\* upstream content that run fetched, and whose request is answered
Retry ==
    /\ pc = "exited" /\ runs' = runs + 1 /\ raised # "none"
    /\ LastFetch(fetched).result = source.data
    /\ LastFetch(fetched').status \in {"local", "200", "304"}

RetryStep == Retry => LastFetch(fetched').result = source.data /\ pc' = "start"

\* C28: a detected upstream change is never lost across runs of main: when a
\* run fetched changed content and split_and_write raised before the feeds
\* were written, a later run with the same upstream content still obtains
\* the bytes from fetch_upstream_if_changed and goes on to split them.
C28_ChangeNotLost == [][RetryStep]_vars

-----------------------------------------------------------------------------
(* The buckets of split_and_write and the courses detected *)

\* the courses that have a bucket
BucketCourses == {buckets[i].course : i \in DOMAIN buckets}

\* the courses detected on the events before position upto
CoursesBefore(upto) ==
    {detect_course_code(upstream[i].summary, upstream[i].description) :
        i \in {j \in Detected : j < upto}}

RECURSIVE EventsIn(_)
\* the number of events in all buckets
EventsIn(d) == IF d = <<>> THEN 0 ELSE Len(Head(d).events) + EventsIn(Tail(d))

\* the feed of the course, under the token token_map holds for it
FeedOf(course) ==
    {f \in feeds : f.name = FeedName(course, AtCourse(token_map, course).token)}

\* the buckets follow the detection, not the filter: during the loop the
\* bucketed courses are the courses detected so far, and kept is the number
\* of events in all buckets
BucketsFollowDetection ==
    /\ kept = EventsIn(buckets)
    /\ pc = "loop" => BucketCourses = CoursesBefore(pos)
    /\ pc \in {"write", "done"} => BucketCourses = CoursesBefore(Len(upstream) + 1)

\* no write of a file has failed
NoWriteFailed == pc = "raised" \/ written = Len(buckets)

\* C29: split_and_write creates a bucket for every course detected on at
\* least one event, also when every event of the course is filtered, and
\* therefore, when the pass has ended, has drawn or found a token for every
\* detected course and written one calendar for each (unless the write of a
\* file failed): the courses written are the courses detected, and kept is
\* the number of events in all buckets.
C29_BucketPerDetectedCourse ==
    /\ BucketsFollowDetection
    /\ pc \in {"done", "raised"} =>
          \A course \in CoursesBefore(Len(upstream) + 1) :
              /\ HoldsToken(token_map, course)
              /\ NoWriteFailed => FeedOf(course) # {}
    /\ pc = "done" =>
          /\ written = Cardinality(feeds)
          /\ feeds \subseteq UNION {FeedOf(course) : course \in BucketCourses}

=============================================================================
